---- MODULE Spec2Model ----
(***************************************************************************)
(* A model of pwm (personal workflow manager): the work-start, pr and      *)
(* work-end flows over git, the tracker and the code host, and the pure    *)
(* helpers they use.  Text is modelled as sequences of one-character       *)
(* strings so that slugging, truncation and concatenation are computed.    *)
(***************************************************************************)
EXTENDS Integers, Sequences, FiniteSets, TLC

VARIABLES
    repo,    \* the local git repository: branches, other refs, checked-out head
    host,    \* the code host: the pull requests it holds
    calls,   \* the external calls (git, tracker, code host) of the current run
    ws,      \* frame of work_start
    pr,      \* frame of open_pr
    we,      \* frame of work_end
    sl,      \* slugify: input and result
    db,      \* get_default_branch: command outcomes and result
    cw,      \* frame of collect_work_data
    bd,      \* get_previous_business_day: instant and result
    cachefile, \* the prompt's status cache file
    clock,   \* time.time(), in seconds
    pp,      \* the prompt processes reading and writing the cache file
    ld,      \* load_merged_config: the dict objects and the frame
    ds,      \* frame of daily_summary
    gs,      \* generate_work_summary: commits and result
    rv,      \* display_pr_info: the reviews and the lines shown
    pg,      \* a paged search of the code host: pages asked, items kept
    rt       \* branch name of work_start and the key read back from it

vars == <<repo, host, calls, ws, pr, we, sl, db, cw, bd, cachefile, clock, pp, ld, ds,
          gs, rv, pg, rt>>

\* the variables of the start, pr and end flows, and those of the digest,
\* prompt and configuration flows
earlier == <<repo, host, ws, pr, we, sl, db>>
later == <<cw, bd, cachefile, clock, pp, ld, ds>>
latest == <<gs, rv, pg, rt>>

\* Python's None, as a text no command produces
None == <<"<None>">>

(***************************************************************************)
(* Bounds of the model.                                                    *)
(***************************************************************************)
MaxPad == 50     \* longest run of leading letters in a slugify input
MaxTail == 3     \* longest free tail of a slugify input

(***************************************************************************)
(* Text helpers.                                                           *)
(***************************************************************************)
Alphabet == {"a", "Z", "7", "-", " ", "_", "E'"}

Uppers == <<"A", "B", "C", "D", "E", "F", "G", "H", "I", "J", "K", "L", "M",
            "N", "O", "P", "Q", "R", "S", "T", "U", "V", "W", "X", "Y", "Z">>
Lowers == <<"a", "b", "c", "d", "e", "f", "g", "h", "i", "j", "k", "l", "m",
            "n", "o", "p", "q", "r", "s", "t", "u", "v", "w", "x", "y", "z">>

\* str.lower() on one character ("E'" stands for a non-ASCII capital whose
\* lower-case form "e'" is outside a-z).
lower(c) ==
    IF \E i \in 1..Len(Uppers) : Uppers[i] = c
    THEN Lowers[CHOOSE i \in 1..Len(Uppers) : Uppers[i] = c]
    ELSE IF c = "E'" THEN "e'" ELSE c

\* the character class [a-z0-9] of the pattern in slugify
IsAlnum(c) == c \in {"a", "b", "c", "d", "e", "f", "g", "h", "i", "j", "k", "l", "m",
                     "n", "o", "p", "q", "r", "s", "t", "u", "v", "w", "x", "y", "z",
                     "0", "1", "2", "3", "4", "5", "6", "7", "8", "9"}

LowerStr(s) == [i \in 1..Len(s) |-> lower(s[i])]

RECURSIVE DropNonAlnum(_)
DropNonAlnum(s) ==
    IF s = <<>> \/ IsAlnum(Head(s)) THEN s ELSE DropNonAlnum(Tail(s))

\* re.sub(r"[^a-z0-9]+", "-", s): every maximal run of other characters
\* becomes one hyphen
RECURSIVE SubRuns(_)
SubRuns(s) ==
    IF s = <<>> THEN <<>>
    ELSE IF IsAlnum(Head(s)) THEN <<Head(s)>> \o SubRuns(Tail(s))
    ELSE <<"-">> \o SubRuns(DropNonAlnum(Tail(s)))

RECURSIVE LStrip(_)
LStrip(s) == IF s # <<>> /\ Head(s) = "-" THEN LStrip(Tail(s)) ELSE s

RECURSIVE RStrip(_)
RStrip(s) ==
    IF s # <<>> /\ s[Len(s)] = "-" THEN RStrip(SubSeq(s, 1, Len(s) - 1)) ELSE s

\* str.strip("-")
Strip(s) == RStrip(LStrip(s))

\* s[:n]
Take(s, n) == SubSeq(s, 1, IF Len(s) < n THEN Len(s) ELSE n)

SlugMax == 50

slugify(s) == Take(Strip(SubRuns(LowerStr(s))), SlugMax)

(***************************************************************************)
(* Frames at rest: what a variable holds while its command is not run.     *)
(***************************************************************************)
IdleRepo == [branches |-> {}, tags |-> {}, head |-> None]
IdleHost == {}
IdleWs == [pc |-> "off"]
IdlePr == [pc |-> "off"]
IdleWe == [pc |-> "off"]
IdleSl == [pc |-> "off"]
IdleDb == [pc |-> "off"]
IdleCw == [pc |-> "off"]
IdleBd == [pc |-> "off"]
IdleLd == [pc |-> "off"]
IdleDs == [pc |-> "off"]
IdleGs == [pc |-> "off"]
IdleRv == [pc |-> "off"]
IdlePg == [pc |-> "off"]
IdleRt == [pc |-> "off"]
NoFile == [kind |-> "none", valid |-> FALSE, entries |-> {}, empty |-> TRUE]
IdlePp == [procs |-> <<>>, stored |-> <<>>, ticks |-> 0, ops |-> 0]

LaterIdle ==
    /\ cw = IdleCw /\ bd = IdleBd /\ cachefile = NoFile /\ clock = 0
    /\ pp = IdlePp /\ ld = IdleLd /\ ds = IdleDs

LatestIdle == gs = IdleGs /\ rv = IdleRv /\ pg = IdlePg /\ rt = IdleRt

(***************************************************************************)
(* slugify, applied to bounded inputs: a run of letters followed by a free *)
(* tail, so that inputs around the 50-character cut are covered.           *)
(***************************************************************************)
Pad(n) == [i \in 1..n |-> "a"]

RECURSIVE Tails(_)
Tails(n) ==
    IF n = 0 THEN {<<>>}
    ELSE Tails(n - 1) \cup {Append(t, c) : t \in {u \in Tails(n - 1) : Len(u) = n - 1}, c \in Alphabet}

SlugInputs == {Pad(n) \o t : n \in 0..MaxPad, t \in Tails(MaxTail)}

SlInit ==
    /\ sl \in {[pc |-> "ready", input |-> s, out |-> None, again |-> None] : s \in SlugInputs}
    /\ repo = IdleRepo /\ host = IdleHost /\ calls = <<>>
    /\ ws = IdleWs /\ pr = IdlePr /\ we = IdleWe /\ db = IdleDb
    /\ LaterIdle /\ LatestIdle

\* slug = slugify(summary or issue_key)
SlugifyCall ==
    /\ sl.pc = "ready"
    /\ sl' = [sl EXCEPT !.pc = "slugged", !.out = slugify(sl.input)]
    /\ UNCHANGED <<repo, host, calls, ws, pr, we, db>>
    /\ UNCHANGED later /\ UNCHANGED latest

\* slugify applied to its own result
SlugifyAgain ==
    /\ sl.pc = "slugged"
    /\ sl' = [sl EXCEPT !.pc = "reslugged", !.again = slugify(sl.out)]
    /\ UNCHANGED <<repo, host, calls, ws, pr, we, db>>
    /\ UNCHANGED later /\ UNCHANGED latest

SlNext == SlugifyCall \/ SlugifyAgain

SpecSlug == SlInit /\ [][SlNext]_vars

\* C9: slugify(s) has at most 50 characters, only lower-case letters, digits
\* and single hyphens, no leading and no trailing hyphen, and slugging the
\* result again gives the same result.
IsSlugShape(t) ==
    /\ Len(t) <= SlugMax
    /\ \A i \in 1..Len(t) : IsAlnum(t[i]) \/ t[i] = "-"
    /\ \A i \in 1..(Len(t) - 1) : ~(t[i] = "-" /\ t[i + 1] = "-")
    /\ t # <<>> => (t[1] # "-" /\ t[Len(t)] # "-")

C9_SlugShapeAndIdempotent ==
    /\ sl.pc \in {"slugged", "reslugged"} => IsSlugShape(sl.out)
    /\ sl.pc = "reslugged" => sl.again = sl.out

(***************************************************************************)
(* get_default_branch.  A ref is the sequence of its path components       *)
(* ("refs/remotes/origin/main" is <<"refs","remotes","origin","main">>),   *)
(* and the result <<remote, ...>> stands for "<remote>/<branch>".  The     *)
(* outcomes of the git commands it runs are its inputs.                    *)
(***************************************************************************)
Remotes == {"origin", "upstream"}

\* the candidates of the fallback loop, in the order of the loop
Candidates == <<"main", "master", "develop">>

\* outcomes of "git symbolic-ref refs/remotes/<remote>/HEAD" for a remote
SymOutcomes(remote) ==
    { [rc |-> 1, out |-> <<>>],
      [rc |-> 0, out |-> <<>>],
      [rc |-> 0, out |-> <<"refs", "remotes", remote, "trunk">>],
      [rc |-> 0, out |-> <<"refs", "remotes", remote, "master">>],
      [rc |-> 0, out |-> <<"refs", "heads", "main">>] }

\* ref.startswith(f"refs/remotes/{remote}/")
StartsWithRemote(ref, remote) ==
    /\ Len(ref) > 3
    /\ SubSeq(ref, 1, 3) = <<"refs", "remotes", remote>>

\* one reading of the symbolic HEAD: the branch found, or None
SymbolicBranch(o, remote) ==
    IF o.rc = 0 /\ o.out # <<>> /\ StartsWithRemote(o.out, remote)
    THEN <<remote>> \o SubSeq(o.out, 4, Len(o.out))
    ELSE None

RECURSIVE ProbeFrom(_, _, _)
\* the loop over the candidates from position i: the commands run and the
\* value returned (None when no candidate verifies)
ProbeFrom(i, remote, remoteRefs) ==
    IF i > Len(Candidates) THEN [cmds |-> <<>>, result |-> None]
    ELSE LET cmd == [op |-> "rev-parse", arg |-> <<remote, Candidates[i]>>]
         IN IF Candidates[i] \in remoteRefs
            THEN [cmds |-> <<cmd>>, result |-> <<remote, Candidates[i]>>]
            ELSE LET rest == ProbeFrom(i + 1, remote, remoteRefs)
                 IN [cmds |-> <<cmd>> \o rest.cmds, result |-> rest.result]

SymCmd(remote) == [op |-> "symbolic-ref", arg |-> <<remote>>]
SetHeadCmd(remote) == [op |-> "set-head", arg |-> <<remote>>]

\* get_default_branch with the re-read after set-head taken regardless of the
\* return code of set-head
get_default_branch_ignoring_sethead_rc(remote, o) ==
    LET b1 == SymbolicBranch(o.sym1, remote)
        b2 == SymbolicBranch(o.sym2, remote)
        probe == ProbeFrom(1, remote, o.remoteRefs)
        fallback == IF probe.result # None THEN probe.result ELSE <<remote, "main">>
    IN IF b1 # None
       THEN [cmds |-> <<SymCmd(remote)>>, result |-> b1]
       ELSE IF b2 # None
            THEN [cmds |-> <<SymCmd(remote), SetHeadCmd(remote), SymCmd(remote)>>,
                  result |-> b2]
            ELSE [cmds |-> <<SymCmd(remote), SetHeadCmd(remote), SymCmd(remote)>> \o probe.cmds,
                  result |-> fallback]

\* get_default_branch(repo_root, remote) under the outcomes o:
\* o.sym1, o.sethead (return code), o.sym2, o.remoteRefs
get_default_branch(remote, o) ==
    LET b1 == SymbolicBranch(o.sym1, remote)
        b2 == SymbolicBranch(o.sym2, remote)
        probe == ProbeFrom(1, remote, o.remoteRefs)
        fallback == IF probe.result # None THEN probe.result ELSE <<remote, "main">>
    IN IF b1 # None
       THEN [cmds |-> <<SymCmd(remote)>>, result |-> b1]
       ELSE IF o.sethead = 0
       THEN IF b2 # None
            THEN [cmds |-> <<SymCmd(remote), SetHeadCmd(remote), SymCmd(remote)>>,
                  result |-> b2]
            ELSE [cmds |-> <<SymCmd(remote), SetHeadCmd(remote), SymCmd(remote)>> \o probe.cmds,
                  result |-> fallback]
       ELSE [cmds |-> <<SymCmd(remote), SetHeadCmd(remote)>> \o probe.cmds,
             result |-> fallback]

GitOutcomes(remote) ==
    [sym1 : SymOutcomes(remote), sethead : {0, 1}, sym2 : SymOutcomes(remote),
     remoteRefs : SUBSET {"main", "master", "develop", "trunk"}]

DbInit ==
    /\ db \in {[pc |-> "ready", remote |-> r, o |-> o, cmds |-> <<>>, result |-> None] :
                 r \in Remotes, o \in UNION {GitOutcomes(q) : q \in Remotes}}
    /\ db.o \in GitOutcomes(db.remote)
    /\ repo = IdleRepo /\ host = IdleHost /\ calls = <<>>
    /\ ws = IdleWs /\ pr = IdlePr /\ we = IdleWe /\ sl = IdleSl
    /\ LaterIdle /\ LatestIdle

GetDefaultBranchCall ==
    /\ db.pc = "ready"
    /\ LET r == get_default_branch(db.remote, db.o)
       IN db' = [db EXCEPT !.pc = "returned", !.cmds = r.cmds, !.result = r.result]
    /\ UNCHANGED <<repo, host, calls, ws, pr, we, sl>>
    /\ UNCHANGED later /\ UNCHANGED latest

DbNext == GetDefaultBranchCall

SpecDefaultBranch == DbInit /\ [][DbNext]_vars

\* C10: get_default_branch always returns <remote>/<branch>, the first success
\* of: the symbolic HEAD; the symbolic HEAD re-read after a successful
\* set-head; the first of main, master, develop on the remote; <remote>/main.
\* set-head runs only when the first reading gave no branch, and candidates
\* are probed only when both readings gave none.
HeadNamesBranch(o, remote) ==
    /\ o.rc = 0
    /\ Len(o.out) > 3
    /\ o.out[1] = "refs" /\ o.out[2] = "remotes" /\ o.out[3] = remote

BranchOfHead(o, remote) == <<remote>> \o [i \in 1..(Len(o.out) - 3) |-> o.out[i + 3]]

FirstCandidate(remote, refs) ==
    IF "main" \in refs THEN <<remote, "main">>
    ELSE IF "master" \in refs THEN <<remote, "master">>
    ELSE IF "develop" \in refs THEN <<remote, "develop">>
    ELSE <<remote, "main">>

Ran(cmds, op) == \E i \in 1..Len(cmds) : cmds[i].op = op

C10_DefaultBranchOrder ==
    db.pc = "returned" =>
        LET o == db.o
            r == db.remote
            step1 == HeadNamesBranch(o.sym1, r)
            step2 == o.sethead = 0 /\ HeadNamesBranch(o.sym2, r)
        IN /\ db.result # None
           /\ Len(db.result) >= 2
           /\ db.result[1] = r
           /\ db.result = IF step1 THEN BranchOfHead(o.sym1, r)
                          ELSE IF step2 THEN BranchOfHead(o.sym2, r)
                          ELSE FirstCandidate(r, o.remoteRefs)
           /\ Ran(db.cmds, "set-head") => ~step1
           /\ Ran(db.cmds, "rev-parse") => (~step1 /\ ~step2)
           /\ db.cmds[1] = SymCmd(r)

\* a run that fell through both readings of the symbolic HEAD and found
\* master, not main, on the remote
C10_Witness ==
    /\ db.pc = "returned"
    /\ Ran(db.cmds, "set-head")
    /\ Ran(db.cmds, "rev-parse")
    /\ db.o.sethead = 0
    /\ db.result = <<db.remote, "master">>

(***************************************************************************)
(* The local repository as git sees it.  branches are the local branches,  *)
(* tags the other names "git rev-parse --verify" resolves, head the name   *)
(* "git rev-parse --abbrev-ref HEAD" prints (HEAD when detached, None when *)
(* the command fails).                                                     *)
(***************************************************************************)
Detached == <<"H", "E", "A", "D">>
Main == <<"m", "a", "i", "n">>

\* current_branch
current_branch(r) == r.head

\* branch_exists: git rev-parse --verify <name>
branch_exists(r, name) == name \in (r.branches \cup r.tags)

\* the repository after "git checkout <name>" returned rc
AfterCheckout(r, name, rc) ==
    IF rc # 0 THEN r
    ELSE [r EXCEPT !.head = IF name \in r.branches THEN name ELSE Detached]

\* the return codes "git checkout <name>" can give
CheckoutCodes(r, name) == IF branch_exists(r, name) THEN {0, 1} ELSE {1}

\* the repository after "git checkout -b <name> <from_ref>" returned rc
AfterCheckoutB(r, name, rc) ==
    IF rc # 0 THEN r
    ELSE [r EXCEPT !.branches = r.branches \cup {name}, !.head = name]

\* the return codes "git checkout -b <name> <from_ref>" can give: it fails
\* when the branch exists or the start point does not resolve
CheckoutBCodes(r, name, resolves) ==
    IF name \notin r.branches /\ resolves THEN {0, 1} ELSE {1}

\* switch_branch reporting success whatever git returned
switch_branch_always_true(r, name, rc) ==
    [call |-> [op |-> "switch_branch", name |-> name, from |-> <<>>],
     repo |-> AfterCheckout(r, name, rc),
     ok |-> TRUE]

\* switch_branch: the call made and its result
switch_branch(r, name, rc) ==
    [call |-> [op |-> "switch_branch", name |-> name, from |-> <<>>],
     repo |-> AfterCheckout(r, name, rc),
     ok |-> (rc = 0)]

\* create_branch with from_ref None: the start point is get_default_branch
create_branch(r, name, o, rc) ==
    LET from_ref == get_default_branch("origin", o).result
    IN [call |-> [op |-> "create_branch", name |-> name, from |-> from_ref],
        repo |-> AfterCheckoutB(r, name, rc),
        ok |-> (rc = 0)]

\* whether the start point chosen under the outcomes o is a ref of the remote
Resolves(o) ==
    LET ref == get_default_branch("origin", o).result
    IN Len(ref) = 2 /\ ref[2] \in o.remoteRefs

\* outcomes of the default-branch commands seen by create_branch: the
\* symbolic HEAD names a branch of the remote; it names one the remote no
\* longer has; no HEAD and master only; no HEAD and no candidate
DefaultOutcomes ==
    LET unset == [rc |-> 1, out |-> <<>>]
        trunk == [rc |-> 0, out |-> <<"refs", "remotes", "origin", "trunk">>]
    IN { [sym1 |-> trunk, sethead |-> 0, sym2 |-> trunk, remoteRefs |-> {"trunk"}],
         [sym1 |-> trunk, sethead |-> 0, sym2 |-> trunk, remoteRefs |-> {"main"}],
         [sym1 |-> unset, sethead |-> 1, sym2 |-> unset, remoteRefs |-> {"master"}],
         [sym1 |-> unset, sethead |-> 0, sym2 |-> trunk, remoteRefs |-> {"trunk", "main"}],
         [sym1 |-> unset, sethead |-> 1, sym2 |-> unset, remoteRefs |-> {}] }

(***************************************************************************)
(* The tracker client.  A response is the HTTP status of the call, or      *)
(* "raise" when the HTTP library raises (network error, timeout).          *)
(***************************************************************************)
Key1 == <<"A", "B", "-", "1">>
Key2 == <<"X", "-", "7">>
FixIt == <<"F", "i", "x", " ", "i", "t">>
InProgress == <<"I", "n", " ", "P", "r", "o", "g", "r", "e", "s", "s">>
InProgressUpper == <<"I", "N", " ", "P", "R", "O", "G", "R", "E", "S", "S">>
DoneName == <<"D", "o", "n", "e">>

\* Python truthiness of an optional text
Truthy(x) == x # None /\ x # <<>>

\* a or b
Or(a, b) == IF Truthy(a) THEN a ELSE b

JiraCfgs ==
    { [base_url |-> <<"u">>, email |-> <<"e">>, token |-> <<"t">>],
      [base_url |-> None, email |-> <<"e">>, token |-> <<"t">>],
      [base_url |-> <<"u">>, email |-> <<>>, token |-> <<"t">>],
      [base_url |-> <<"u">>, email |-> <<"e">>, token |-> None],
      [base_url |-> None, email |-> None, token |-> None] }

\* from_config requiring the token only
JiraFromConfig_token_only(j) == Truthy(j.token)

\* JiraClient.from_config: TRUE for a client, FALSE for None
JiraFromConfig(j) == Truthy(j.base_url) /\ Truthy(j.email) /\ Truthy(j.token)

IssueResponses ==
    {[status |-> "raise", summary |-> None], [status |-> "404", summary |-> None]}
    \cup {[status |-> "200", summary |-> x] : x \in {None, <<>>, FixIt}}

\* JiraClient.get_issue_summary under the response to GET issue
get_issue_summary(resp) ==
    [call |-> [op |-> "jira.get_issue", name |-> <<>>, from |-> <<>>],
     raised |-> (resp.status = "raise"),
     value |-> IF resp.status = "200" THEN resp.summary ELSE None]

TransitionLists ==
    { <<>>,
      <<[name |-> DoneName, id |-> <<"4", "1">>]>>,
      <<[name |-> DoneName, id |-> <<"4", "1">>], [name |-> InProgressUpper, id |-> <<"3", "1">>]>>,
      <<[name |-> InProgress, id |-> None]>>,
      <<[name |-> InProgress, id |-> <<"3", "1">>], [name |-> InProgressUpper, id |-> <<"3", "2">>]>> }

TransitionResponses ==
    {[status |-> "raise", transitions |-> <<>>], [status |-> "500", transitions |-> <<>>]}
    \cup {[status |-> "200", transitions |-> l] : l \in TransitionLists}

PostStatuses == {"raise", "200", "201", "204", "400"}

\* JiraClient._transitions
Transitions(resp) == IF resp.status = "200" THEN resp.transitions ELSE <<>>

\* the match made on the names as they are
MatchTransition_case_sensitive(transitions, name) ==
    LET hits == {i \in 1..Len(transitions) : transitions[i].name = name}
    IN IF hits = {} THEN None
       ELSE transitions[CHOOSE i \in hits : \A j \in hits : i <= j].id

\* the id of the first transition whose name matches, compared lower-cased
MatchTransition(transitions, name) ==
    LET hits == {i \in 1..Len(transitions) : LowerStr(transitions[i].name) = LowerStr(name)}
    IN IF hits = {} THEN None
       ELSE transitions[CHOOSE i \in hits : \A j \in hits : i <= j].id

\* JiraClient.transition_by_name
transition_by_name(name, resp, post) ==
    LET get == [op |-> "jira.get_transitions", name |-> <<>>, from |-> <<>>]
        send == [op |-> "jira.post_transition", name |-> <<>>, from |-> <<>>]
        tid == MatchTransition(Transitions(resp), name)
    IN IF resp.status = "raise"
       THEN [calls |-> <<get>>, raised |-> TRUE, value |-> FALSE]
       ELSE IF ~Truthy(tid)
       THEN [calls |-> <<get>>, raised |-> FALSE, value |-> FALSE]
       ELSE [calls |-> <<get, send>>, raised |-> (post = "raise"),
             value |-> (post \in {"204", "200"})]


\* JiraClient.add_comment
add_comment(post) ==
    [call |-> [op |-> "jira.post_comment", name |-> <<>>, from |-> <<>>],
     raised |-> (post = "raise"),
     value |-> (post \in {"201", "200"})]

(***************************************************************************)
(* Branch names.  A pattern is a sequence of literal characters and the    *)
(* two placeholders of str.format.                                         *)
(***************************************************************************)
DefaultPattern == <<"{issue_key}", "-", "{slug}">>
FeaturePattern == <<"f", "/", "{issue_key}", "-", "{slug}">>

RECURSIVE Format(_, _, _)
\* pattern.format(issue_key=..., slug=...)
Format(pattern, issue_key, slug) ==
    IF pattern = <<>> THEN <<>>
    ELSE (CASE Head(pattern) = "{issue_key}" -> issue_key
            [] Head(pattern) = "{slug}" -> slug
            [] OTHER -> <<Head(pattern)>>) \o Format(Tail(pattern), issue_key, slug)

\* the branch name work_start computes
BranchName(pattern, issue_key, summary) ==
    Format(Or(pattern, DefaultPattern), issue_key, slugify(Or(summary, issue_key)))

\* the branch step without the check that the branch exists
BranchDecision_no_exists_check(current, branch_name, exists) ==
    IF current = branch_name THEN "none" ELSE "create"

\* the decision of the branch step: which git operation to run
BranchDecision(current, branch_name, exists) ==
    IF current = branch_name THEN "none"
    ELSE IF exists THEN "switch"
    ELSE "create"

(***************************************************************************)
(* work_start, step by step.                                               *)
(***************************************************************************)
NoTable == [branch_name |-> None, created |-> "", switched |-> "", summary |-> None,
            transitioned |-> "", commented |-> ""]

WsFrame0 ==
    [pc |-> "idle", given |-> None, issue_key |-> None, create_new |-> FALSE,
     transition |-> TRUE, comment |-> TRUE, pattern |-> None,
     cfg |-> [base_url |-> None, email |-> None, token |-> None], jira |-> FALSE,
     summary |-> None, branch_name |-> None, current |-> None, decision |-> "",
     created |-> FALSE, switched |-> FALSE, available |-> <<>>,
     transitioned |-> FALSE, commented |-> FALSE, table |-> NoTable, rc |-> -1]

\* the names a run can compute, and main
RepoNames == {Main} \cup {BranchName(None, Key1, x) : x \in {None, FixIt}}

RepoStates ==
    {r \in [branches : SUBSET RepoNames, tags : SUBSET RepoNames, head : RepoNames \cup {Detached, None}] :
        /\ Main \in r.branches
        /\ Cardinality(r.tags) <= 1
        /\ r.tags \cap r.branches = {}
        /\ r.head \in r.branches \cup {Detached, None}}

WsInit ==
    /\ repo \in RepoStates
    /\ ws = WsFrame0
    /\ calls = <<>>
    /\ host = IdleHost /\ pr = IdlePr /\ we = IdleWe /\ sl = IdleSl /\ db = IdleDb
    /\ LaterIdle /\ LatestIdle

YesNo(b) == IF b THEN "yes" ELSE "no"

\* the validation without its first test
WsBegin_without_both_check ==
    /\ ws.pc = "idle"
    /\ \E issue_key \in {None, Key1}, create_new \in BOOLEAN, transition \in BOOLEAN,
          comment \in BOOLEAN, j \in JiraCfgs, project_key \in {None, <<"X">>},
          pattern \in {None, FeaturePattern}, new_key \in {None, Key2} :
          LET jira == JiraFromConfig(j)
              f == [WsFrame0 EXCEPT !.given = issue_key, !.issue_key = issue_key,
                                    !.create_new = create_new, !.transition = transition,
                                    !.comment = comment, !.pattern = pattern,
                                    !.cfg = j, !.jira = jira]
              fail == [f EXCEPT !.pc = "done", !.rc = 1]
          IN IF ~create_new /\ ~Truthy(issue_key) THEN ws' = fail /\ calls' = <<>>
             ELSE IF create_new
             THEN IF ~jira THEN ws' = fail /\ calls' = <<>>
                  ELSE IF ~Truthy(project_key) THEN ws' = fail /\ calls' = <<>>
                  ELSE /\ calls' = <<[op |-> "create_new_issue", name |-> <<>>, from |-> <<>>]>>
                       /\ IF ~Truthy(new_key) THEN ws' = fail
                          ELSE ws' = [f EXCEPT !.pc = "summary", !.issue_key = new_key]
             ELSE ws' = [f EXCEPT !.pc = "summary"] /\ calls' = <<>>
    /\ UNCHANGED <<repo, host, pr, we, sl, db>>
    /\ UNCHANGED later /\ UNCHANGED latest

\* work_start, lines 19-47: argument validation, the tracker client and the
\* creation of a new issue
WsBegin ==
    /\ ws.pc = "idle"
    /\ \E issue_key \in {None, Key1}, create_new \in BOOLEAN, transition \in BOOLEAN,
          comment \in BOOLEAN, j \in JiraCfgs, project_key \in {None, <<"X">>},
          pattern \in {None, FeaturePattern}, new_key \in {None, Key2} :
          LET jira == JiraFromConfig(j)
              f == [WsFrame0 EXCEPT !.given = issue_key, !.issue_key = issue_key,
                                    !.create_new = create_new, !.transition = transition,
                                    !.comment = comment, !.pattern = pattern,
                                    !.cfg = j, !.jira = jira]
              fail == [f EXCEPT !.pc = "done", !.rc = 1]
          IN IF create_new /\ Truthy(issue_key) THEN ws' = fail /\ calls' = <<>>
             ELSE IF ~create_new /\ ~Truthy(issue_key) THEN ws' = fail /\ calls' = <<>>
             ELSE IF create_new
             THEN IF ~jira THEN ws' = fail /\ calls' = <<>>
                  ELSE IF ~Truthy(project_key) THEN ws' = fail /\ calls' = <<>>
                  ELSE /\ calls' = <<[op |-> "create_new_issue", name |-> <<>>, from |-> <<>>]>>
                       /\ IF ~Truthy(new_key) THEN ws' = fail
                          ELSE ws' = [f EXCEPT !.pc = "summary", !.issue_key = new_key]
             ELSE ws' = [f EXCEPT !.pc = "summary"] /\ calls' = <<>>
    /\ UNCHANGED <<repo, host, pr, we, sl, db>>
    /\ UNCHANGED later /\ UNCHANGED latest

\* lines 49-54: the issue summary and the branch name
WsSummary ==
    /\ ws.pc = "summary"
    /\ IF ws.jira
       THEN \E resp \in IssueResponses :
              LET r == get_issue_summary(resp)
              IN /\ calls' = Append(calls, r.call)
                 /\ IF r.raised THEN ws' = [ws EXCEPT !.pc = "raised"]
                    ELSE ws' = [ws EXCEPT !.pc = "branch", !.summary = r.value,
                                   !.branch_name = BranchName(ws.pattern, ws.issue_key, r.value)]
       ELSE /\ calls' = calls
            /\ ws' = [ws EXCEPT !.pc = "branch", !.summary = None,
                         !.branch_name = BranchName(ws.pattern, ws.issue_key, None)]
    /\ UNCHANGED <<repo, host, pr, we, sl, db>>
    /\ UNCHANGED later /\ UNCHANGED latest

\* lines 56-65: the branch step
WsBranch ==
    /\ ws.pc = "branch"
    /\ LET current == current_branch(repo)
           name == ws.branch_name
           decision == BranchDecision(current, name, branch_exists(repo, name))
           f == [ws EXCEPT !.pc = "transition", !.current = current, !.decision = decision]
       IN CASE decision = "none" ->
                 /\ ws' = f
                 /\ UNCHANGED <<repo, calls>>
            [] decision = "switch" ->
                 \E rc \in CheckoutCodes(repo, name) :
                    LET r == switch_branch(repo, name, rc)
                    IN /\ repo' = r.repo
                       /\ calls' = Append(calls, r.call)
                       /\ ws' = [f EXCEPT !.switched = r.ok]
            [] decision = "create" ->
                 \E o \in DefaultOutcomes :
                   \E rc \in CheckoutBCodes(repo, name, Resolves(o)) :
                    LET r == create_branch(repo, name, o, rc)
                    IN /\ repo' = r.repo
                       /\ calls' = Append(calls, r.call)
                       /\ ws' = [f EXCEPT !.created = r.ok, !.switched = (IF r.ok THEN TRUE ELSE FALSE)]
    /\ UNCHANGED <<host, pr, we, sl, db>>
    /\ UNCHANGED later /\ UNCHANGED latest

\* lines 67-71: the transition to In Progress
WsTransition ==
    /\ ws.pc = "transition"
    /\ IF ws.jira /\ ws.transition
       THEN \E resp \in TransitionResponses, post \in PostStatuses :
              LET r == transition_by_name(InProgress, resp, post)
              IN /\ calls' = calls \o r.calls
                 /\ IF r.raised THEN ws' = [ws EXCEPT !.pc = "raised"]
                    ELSE ws' = [ws EXCEPT !.pc = "comment", !.transitioned = r.value,
                                   !.available = Transitions(resp)]
       ELSE /\ calls' = calls
            /\ ws' = [ws EXCEPT !.pc = "comment"]
    /\ UNCHANGED <<repo, host, pr, we, sl, db>>
    /\ UNCHANGED later /\ UNCHANGED latest

\* lines 69, 72-73: the comment naming the branch
WsComment ==
    /\ ws.pc = "comment"
    /\ IF ws.jira /\ ws.comment
       THEN \E post \in PostStatuses :
              LET r == add_comment(post)
              IN /\ calls' = Append(calls, r.call)
                 /\ IF r.raised THEN ws' = [ws EXCEPT !.pc = "raised"]
                    ELSE ws' = [ws EXCEPT !.pc = "report", !.commented = r.value]
       ELSE /\ calls' = calls
            /\ ws' = [ws EXCEPT !.pc = "report"]
    /\ UNCHANGED <<repo, host, pr, we, sl, db>>
    /\ UNCHANGED later /\ UNCHANGED latest

\* lines 75-86: the table and the return code
WsReport ==
    /\ ws.pc = "report"
    /\ ws' = [ws EXCEPT
                !.pc = "done", !.rc = 0,
                !.table = [branch_name |-> ws.branch_name,
                           created |-> YesNo(ws.created),
                           switched |-> YesNo(ws.switched \/ ws.current = ws.branch_name),
                           summary |-> Or(ws.summary, <<"<unknown>">>),
                           transitioned |-> IF ws.jira THEN YesNo(ws.transitioned) ELSE "<skipped>",
                           commented |-> IF ws.jira THEN YesNo(ws.commented) ELSE "<skipped>"]]
    /\ UNCHANGED <<repo, calls, host, pr, we, sl, db>>
    /\ UNCHANGED later /\ UNCHANGED latest

WsNext == WsBegin \/ WsSummary \/ WsBranch \/ WsTransition \/ WsComment \/ WsReport

SpecWorkStart == WsInit /\ [][WsNext]_vars

(***************************************************************************)
(* Properties of work_start.                                               *)
(***************************************************************************)
Count(log, op) == Cardinality({i \in 1..Len(log) : log[i].op = op})

GitBranchOps(log) == Count(log, "create_branch") + Count(log, "switch_branch")

\* the calls a step added to the log
Added == SubSeq(calls', Len(calls) + 1, Len(calls'))

\* C1: a run of work_start with an issue key performs at most one git branch
\* operation: none when the current branch is the target, switch_branch
\* when the target differs and exists, create_branch from the detected
\* default branch when it differs and does not exist; never create_branch
\* for an existing branch, never both.
C1_OneBranchOperation ==
    [][ /\ GitBranchOps(calls') <= 1
        /\ ws.pc # "branch" => GitBranchOps(Added) = 0
        /\ ws.pc = "branch" =>
             LET name == ws.branch_name
                 exists == name \in repo.branches \/ name \in repo.tags
             IN /\ repo.head = name => Added = <<>>
                /\ (repo.head # name /\ exists) =>
                      /\ Len(Added) = 1
                      /\ Added[1].op = "switch_branch"
                      /\ Added[1].name = name
                /\ (repo.head # name /\ ~exists) =>
                      /\ Len(Added) = 1
                      /\ Added[1].op = "create_branch"
                      /\ Added[1].name = name
                      /\ Len(Added[1].from) >= 2
                      /\ Added[1].from[1] = "origin"
       ]_vars

\* a finished run that created the missing branch from the default branch
\* and ended on it
C1_Witness ==
    /\ ws.pc = "done"
    /\ ws.rc = 0
    /\ ws.create_new = FALSE
    /\ Count(calls, "create_branch") = 1
    /\ ws.branch_name \in repo.branches
    /\ repo.head = ws.branch_name

Offers(transitions, lowered) ==
    \E i \in 1..Len(transitions) :
        /\ LowerStr(transitions[i].name) = lowered
        /\ \A j \in 1..(i - 1) : LowerStr(transitions[j].name) # lowered
        /\ transitions[i].id # None

\* C7: each step of work_start is attempted at most once, and a reported
\* failure does not stop the later ones: after a failed create_branch or
\* switch_branch the transition is still attempted, and after a transition
\* reported as failed (no matching name: no POST sent) the comment is still
\* attempted.
C7_StepsOnceAndIndependent ==
    [][ /\ GitBranchOps(calls') <= 1
        /\ Count(calls', "jira.get_transitions") <= 1
        /\ Count(calls', "jira.post_transition") <= 1
        /\ Count(calls', "jira.post_comment") <= 1
        /\ ws.pc = "branch" => ws'.pc = "transition"
        /\ ws.pc = "transition" =>
              /\ (ws.jira /\ ws.transition) <=> Count(Added, "jira.get_transitions") = 1
              /\ ws'.pc \in {"comment", "raised"}
              /\ ws'.pc = "comment" =>
                    /\ Count(Added, "jira.post_transition") = 1
                          <=> Offers(ws'.available, <<"i", "n", " ", "p", "r", "o", "g", "r", "e", "s", "s">>)
                    /\ Count(Added, "jira.post_transition") = 0 => ~ws'.transitioned
        /\ ws.pc = "comment" =>
              /\ (ws.jira /\ ws.comment) <=> Count(Added, "jira.post_comment") = 1
              /\ ws'.pc \in {"report", "raised"}
       ]_vars

\* a run whose branch creation failed and whose transition found no match,
\* and which still posted the comment and returned 0
C7_Witness ==
    /\ ws.pc = "done"
    /\ ws.rc = 0
    /\ Count(calls, "create_branch") = 1
    /\ ~ws.created
    /\ repo.head # ws.branch_name
    /\ Count(calls, "jira.get_transitions") = 1
    /\ Count(calls, "jira.post_transition") = 0
    /\ ws.available # <<>>
    /\ ws.table.transitioned = "no"
    /\ Count(calls, "jira.post_comment") = 1

Missing(x) == x = None \/ x = <<>>

\* C8: with the tracker not configured and an issue key given, work_start
\* makes the branch decision on a slug of the issue key, makes no tracker
\* call, reports both tracker rows as <skipped> and returns 0.
C8_NoTrackerStillBranches ==
    (/\ ws.pc # "idle"
     /\ ~ws.create_new
     /\ ws.issue_key = Key1
     /\ (Missing(ws.cfg.base_url) \/ Missing(ws.cfg.email) \/ Missing(ws.cfg.token))) =>
        /\ \A i \in 1..Len(calls) : calls[i].op \in {"create_branch", "switch_branch"}
        /\ ws.pc # "raised"
        /\ ws.pc \notin {"summary"} =>
              ws.branch_name = Format(Or(ws.pattern, DefaultPattern), Key1, <<"a", "b", "-", "1">>)
        /\ ws.pc \in {"transition", "comment", "report", "done"} =>
              /\ ws.decision = "none" <=> GitBranchOps(calls) = 0
              /\ ws.decision = "switch" <=> Count(calls, "switch_branch") = 1
              /\ ws.decision = "create" <=> Count(calls, "create_branch") = 1
        /\ ws.pc = "done" =>
              /\ ws.rc = 0
              /\ ws.table.transitioned = "<skipped>"
              /\ ws.table.commented = "<skipped>"
              /\ ws.table.branch_name = ws.branch_name

\* a finished run without tracker that created the branch
C8_Witness ==
    /\ ws.pc = "done"
    /\ ws.rc = 0
    /\ ws.cfg.token = None
    /\ ws.issue_key = Key1
    /\ ws.table.commented = "<skipped>"
    /\ Count(calls, "create_branch") = 1
    /\ repo.head = ws.branch_name

(***************************************************************************)
(* extract_issue_key_from_branch: the first match of ([A-Z]+)-(\d+).       *)
(***************************************************************************)
IsUpper(c) == \E i \in 1..Len(Uppers) : Uppers[i] = c
IsDigit(c) == c \in {"0", "1", "2", "3", "4", "5", "6", "7", "8", "9"}

RECURSIVE UpperRunEnd(_, _)
\* the last position of the run of capitals that starts at i
UpperRunEnd(s, i) ==
    IF i < Len(s) /\ IsUpper(s[i + 1]) THEN UpperRunEnd(s, i + 1) ELSE i

\* the digits matched as \d, one digit only
DigitRunEnd_one_digit(s, i) == i

RECURSIVE DigitRunEnd(_, _)
DigitRunEnd(s, i) ==
    IF i < Len(s) /\ IsDigit(s[i + 1]) THEN DigitRunEnd(s, i + 1) ELSE i

\* whether the pattern matches starting at position i
KeyMatchesAt(s, i) ==
    /\ IsUpper(s[i])
    /\ LET j == UpperRunEnd(s, i)
       IN /\ j + 2 <= Len(s)
          /\ s[j + 1] = "-"
          /\ IsDigit(s[j + 2])

extract_issue_key_from_branch(s) ==
    LET starts == {i \in 1..Len(s) : KeyMatchesAt(s, i)}
    IN IF starts = {} THEN None
       ELSE LET i == CHOOSE k \in starts : \A m \in starts : k <= m
            IN SubSeq(s, i, DigitRunEnd(s, UpperRunEnd(s, i) + 2))

(***************************************************************************)
(* The code host.  host is the set of pull requests it holds; a head is    *)
(* <<owner, branch>> for "owner:branch".                                   *)
(***************************************************************************)
OrgRepo == <<"org", "repo">>          \* github_repo "org/repo"
WorkBranch == BranchName(None, Key1, FixIt)

\* owner = repo.split("/")[0]; head = f"{owner}:{branch}"
HeadOf(github_repo, branch) == <<github_repo[1], branch>>

\* what GET /repos/<repo>/pulls?state=..&head=.. answers with status 200:
\* the numbers of the matching pull requests, lowest first
RECURSIVE SortedNumbers(_)
SortedNumbers(S) ==
    IF S = {} THEN <<>>
    ELSE LET m == CHOOSE x \in S : \A y \in S : x <= y
         IN <<m>> \o SortedNumbers(S \ {m})

Matching(h, head, state) ==
    {p.number : p \in {q \in h : q.head = head /\ (state = "all" \/ q.state = state)}}

\* the same query with the state filter left out
list_prs_any_state(h, head, state, status) ==
    IF status = "200" THEN SortedNumbers(Matching(h, head, "all")) ELSE <<>>

\* GitHubClient.list_prs: [] on an exception or a status other than 200
list_prs(h, head, state, status) ==
    IF status = "200" THEN SortedNumbers(Matching(h, head, state)) ELSE <<>>

\* GitHubClient.get_pr_for_branch: the first pull request listed, or 0 for None
get_pr_for_branch(h, github_repo, branch, state, status) ==
    LET prs == list_prs(h, HeadOf(github_repo, branch), state, status)
    IN IF prs # <<>> THEN prs[1] ELSE 0

GetStatuses == {"raise", "200", "404", "500"}

\* push_branch reporting success whatever git returned
push_branch_always_true(branch, remote, set_upstream, rc) ==
    [call |-> [op |-> "push_branch", name |-> branch,
               from |-> IF set_upstream THEN <<"push", "-u", remote>> ELSE <<"push", remote>>,
               rc |-> rc],
     ok |-> TRUE]

\* push_branch: the git command run and its result
push_branch(branch, remote, set_upstream, rc) ==
    [call |-> [op |-> "push_branch", name |-> branch,
               from |-> IF set_upstream THEN <<"push", "-u", remote>> ELSE <<"push", remote>>,
               rc |-> rc],
     ok |-> (rc = 0)]

\* the statuses POST /repos/<repo>/pulls can answer: 201 only when no open
\* pull request for that head exists yet
CreateStatuses(h, head) ==
    IF \E p \in h : p.head = head /\ p.state = "open"
    THEN {"raise", "422"} ELSE {"raise", "201", "422"}

NextNumber(h) == 1 + Cardinality(h)

\* GitHubClient.create_pr: the pull request created, or 0 for None
create_pr(h, github_repo, head_branch, base, status) ==
    [call |-> [op |-> "github.create_pr", name |-> head_branch, from |-> base],
     host |-> IF status = "201"
              THEN h \cup {[number |-> 10 + NextNumber(h),
                            head |-> HeadOf(github_repo, head_branch), state |-> "open"]}
              ELSE h,
     value |-> IF status = "201" THEN 10 + NextNumber(h) ELSE 0]

\* base_branch_ref.split("/")[-1]
BaseOf(ref) == <<ref[Len(ref)]>>

(***************************************************************************)
(* open_pr, step by step.                                                  *)
(***************************************************************************)
MaxCommits == 2    \* most commits on the branch

Subject(i) == <<"c", IF i = 1 THEN "1" ELSE IF i = 2 THEN "2" ELSE "3">>

\* the subjects get_commits_since_base returns, newest first
CommitLists == {[i \in 1..n |-> Subject(i)] : n \in 0..MaxCommits}

\* generate_pr_title: the tracker summary, else the first commit subject,
\* else a placeholder
generate_pr_title(issue_key, summary, commits) ==
    LET tag == <<"[">> \o issue_key \o <<"]", " ">>
    IN IF Truthy(summary) THEN tag \o summary
       ELSE IF Len(commits) > 0 THEN tag \o commits[1]
       ELSE tag \o <<"C", "h", "a", "n", "g", "e", "s">>

HostPrs ==
    { [number |-> 1, head |-> <<"org", WorkBranch>>, state |-> "open"],
      [number |-> 2, head |-> <<"org", WorkBranch>>, state |-> "closed"],
      [number |-> 3, head |-> <<"fork", WorkBranch>>, state |-> "open"],
      [number |-> 4, head |-> <<"org", Main>>, state |-> "open"] }

PrFrame0 ==
    [pc |-> "idle", branch |-> None, issue_key |-> None, github_repo |-> None,
     jira |-> FALSE, lookup |-> "", existing |-> 0, base_ref |-> None, commits |-> <<>>,
     pushed |-> "no", title |-> None, created |-> "no", rc |-> -1]

PrRepoStates ==
    {[branches |-> {Main, WorkBranch}, tags |-> {}, head |-> h] : h \in {None, Detached, Main, WorkBranch}}

PrInit ==
    /\ repo \in PrRepoStates
    /\ host \in SUBSET HostPrs
    /\ pr = PrFrame0
    /\ calls = <<>>
    /\ ws = IdleWs /\ we = IdleWe /\ sl = IdleSl /\ db = IdleDb
    /\ LaterIdle /\ LatestIdle

Call(op) == [op |-> op, name |-> <<>>, from |-> <<>>]

\* display_pr_info: the two reads it makes
DisplayCalls == <<Call("github.get_pr_details"), Call("github.get_pr_reviews")>>

\* open_pr, lines 156-186: branch, issue key, repository and client
PrBegin ==
    /\ pr.pc = "idle"
    /\ \E github_repo \in {None, OrgRepo}, token \in {None, <<"t">>}, j \in JiraCfgs :
         LET branch == current_branch(repo)
             issue_key == IF Truthy(branch) THEN extract_issue_key_from_branch(branch) ELSE None
             fail == [PrFrame0 EXCEPT !.pc = "done", !.rc = 1, !.branch = branch,
                                      !.issue_key = issue_key]
         IN IF ~Truthy(branch) THEN pr' = fail
            ELSE IF ~Truthy(issue_key) THEN pr' = fail
            ELSE IF ~Truthy(github_repo) THEN pr' = fail
            ELSE IF ~Truthy(token) THEN pr' = [fail EXCEPT !.github_repo = github_repo]
            ELSE pr' = [PrFrame0 EXCEPT !.pc = "lookup", !.branch = branch,
                                        !.issue_key = issue_key, !.github_repo = github_repo,
                                        !.jira = JiraFromConfig(j)]
    /\ UNCHANGED <<repo, host, calls, ws, we, sl, db>>
    /\ UNCHANGED later /\ UNCHANGED latest

\* lines 188-201: an existing pull request is shown and the run ends
PrLookup ==
    /\ pr.pc = "lookup"
    /\ \E status \in GetStatuses :
         LET existing == get_pr_for_branch(host, pr.github_repo, pr.branch, "open", status)
             looked == Append(calls, [op |-> "github.list_prs", name |-> pr.branch, from |-> <<"open">>])
         IN IF existing # 0
            THEN /\ calls' = looked \o DisplayCalls
                 /\ pr' = [pr EXCEPT !.pc = "done", !.rc = 0, !.lookup = status,
                                     !.existing = existing]
            ELSE /\ calls' = looked
                 /\ pr' = [pr EXCEPT !.pc = "commits", !.lookup = status]
    /\ UNCHANGED <<repo, host, ws, we, sl, db>>
    /\ UNCHANGED later /\ UNCHANGED latest

\* the outcomes open_pr can meet: those above, and a default branch whose
\* name has a slash (refs/remotes/origin/release/2)
PrDefaultOutcomes ==
    LET release == [rc |-> 0, out |-> <<"refs", "remotes", "origin", "release", "2">>]
    IN DefaultOutcomes \cup
       {[sym1 |-> release, sethead |-> 0, sym2 |-> release, remoteRefs |-> {"main"}]}

\* lines 203-217: base branch, commits, and the question when there are none
PrCommits ==
    /\ pr.pc = "commits"
    /\ \E o \in PrDefaultOutcomes, commits \in CommitLists, create_anyway \in BOOLEAN :
         LET base_ref == get_default_branch("origin", o).result
         IN IF commits = <<>> /\ ~create_anyway
            THEN pr' = [pr EXCEPT !.pc = "done", !.rc = 1, !.base_ref = base_ref]
            ELSE pr' = [pr EXCEPT !.pc = "push", !.base_ref = base_ref, !.commits = commits]
    /\ UNCHANGED <<repo, host, calls, ws, we, sl, db>>
    /\ UNCHANGED later /\ UNCHANGED latest

\* lines 219-223: the push
PrPush ==
    /\ pr.pc = "push"
    /\ \E rc \in {0, 1} :
         LET r == push_branch(pr.branch, "origin", TRUE, rc)
         IN /\ calls' = Append(calls, r.call)
            /\ IF ~r.ok THEN pr' = [pr EXCEPT !.pc = "done", !.rc = 1, !.pushed = "failed"]
               ELSE pr' = [pr EXCEPT !.pc = "create", !.pushed = "ok"]
    /\ UNCHANGED <<repo, host, ws, we, sl, db>>
    /\ UNCHANGED later /\ UNCHANGED latest

\* lines 225-261: title, description, creation
PrCreate ==
    /\ pr.pc = "create"
    /\ \E resp \in IssueResponses, resp2 \in IssueResponses,
          status \in CreateStatuses(host, HeadOf(pr.github_repo, pr.branch)) :
         LET s == get_issue_summary(resp)
             title == generate_pr_title(pr.issue_key, IF pr.jira THEN s.value ELSE None, pr.commits)
             tracker == IF pr.jira THEN <<s.call>> ELSE <<>>
             r == create_pr(host, pr.github_repo, pr.branch, BaseOf(pr.base_ref), status)
         IN IF pr.jira /\ s.raised
            THEN /\ calls' = calls \o tracker
                 /\ pr' = [pr EXCEPT !.pc = "raised"]
                 /\ host' = host
            ELSE IF pr.jira /\ resp2.status = "raise"
            THEN /\ calls' = calls \o tracker \o <<Call("jira.get_issue")>>
                 /\ pr' = [pr EXCEPT !.pc = "raised", !.title = title]
                 /\ host' = host
            ELSE /\ host' = r.host
                 /\ IF r.value = 0
                    THEN /\ calls' = calls \o tracker
                                       \o (IF pr.jira THEN <<Call("jira.get_issue")>> ELSE <<>>)
                                       \o <<r.call>>
                         /\ pr' = [pr EXCEPT !.pc = "done", !.rc = 1, !.title = title,
                                             !.created = "failed"]
                    ELSE /\ calls' = calls \o tracker
                                       \o (IF pr.jira THEN <<Call("jira.get_issue")>> ELSE <<>>)
                                       \o <<r.call>> \o DisplayCalls
                         /\ pr' = [pr EXCEPT !.pc = "done", !.rc = 0, !.title = title,
                                             !.created = "ok"]
    /\ UNCHANGED <<repo, ws, we, sl, db>>
    /\ UNCHANGED later /\ UNCHANGED latest

PrNext == PrBegin \/ PrLookup \/ PrCommits \/ PrPush \/ PrCreate

SpecOpenPr == PrInit /\ [][PrNext]_vars

(***************************************************************************)
(* Properties of open_pr.                                                  *)
(***************************************************************************)
Holds(h, github_repo, branch) == \E p \in h : p.head = <<github_repo[1], branch>>

HoldsOpen(h, github_repo, branch) ==
    \E p \in h : p.head = <<github_repo[1], branch>> /\ p.state = "open"

\* C3 as stated: in a run in which the code host holds a pull request whose
\* head is <owner>:<branch>, whatever its state and whatever the lookup
\* answers, open_pr neither pushes nor creates, and returns 0 after the lookup.
C3_NeverCreatesWhenHeld ==
    [][ (pr.pc \in {"lookup", "commits", "push", "create"}
         /\ Holds(host, pr.github_repo, pr.branch)) =>
            /\ Count(Added, "push_branch") = 0
            /\ Count(Added, "github.create_pr") = 0
            /\ pr.pc = "lookup" => (pr'.pc = "done" /\ pr'.rc = 0)
      ]_vars

\* C3, amended: open_pr stops after the lookup exactly when the code host
\* holds an open pull request for <owner>:<branch> and the list call answers
\* 200; it then returns 0 having pushed nothing and created nothing.  A
\* closed pull request or a failed lookup counts as no pull request.
C3_StopsIffOpenPrListed ==
    [][ pr.pc = "lookup" =>
           /\ (pr'.lookup = "200" /\ HoldsOpen(host, pr.github_repo, pr.branch))
                 <=> pr'.pc = "done"
           /\ pr'.pc = "done" =>
                 /\ pr'.rc = 0
                 /\ host' = host
                 /\ Count(calls', "push_branch") = 0
                 /\ Count(calls', "github.create_pr") = 0
                 /\ \E p \in host : /\ p.number = pr'.existing
                                    /\ p.state = "open"
                                    /\ p.head = <<"org", pr.branch>>
           /\ pr'.pc # "done" => (pr'.pc = "commits" /\ pr'.existing = 0)
      ]_vars

\* a run that found the open pull request next to a closed one for the same
\* head and one from a fork, and stopped
C3_Witness ==
    /\ pr.pc = "done"
    /\ pr.rc = 0
    /\ pr.existing = 1
    /\ Cardinality(host) >= 3
    /\ Count(calls, "github.get_pr_details") = 1
    /\ Count(calls, "github.create_pr") = 0

Has(seq, x) == \E i \in 1..Len(seq) : seq[i] = x

\* C4: create_pr is called only after push_branch, with upstream set, has
\* succeeded for that branch in the same run; a failed push ends the run
\* with 1 and without create_pr; a failed create_pr ends the run with 1.
C4_CreateOnlyAfterPush ==
    [][ /\ \A i \in 1..Len(calls') :
             calls'[i].op = "github.create_pr" =>
                /\ calls'[i].name = pr.branch
                /\ \E j \in 1..(i - 1) :
                      /\ calls'[j].op = "push_branch"
                      /\ calls'[j].name = calls'[i].name
                      /\ calls'[j].rc = 0
                      /\ Has(calls'[j].from, "-u")
        /\ Count(calls', "push_branch") <= 1
        /\ Count(calls', "github.create_pr") <= 1
        /\ (pr.pc = "push" /\ Added[1].rc # 0) =>
              (pr'.pc = "done" /\ pr'.rc = 1)
        /\ (pr.pc = "create" /\ Count(Added, "github.create_pr") = 1 /\ host' = host) =>
              (pr'.pc = "done" /\ pr'.rc = 1)
        /\ (pr.pc = "create" /\ host' # host) =>
              (pr'.pc = "done" /\ pr'.rc = 0 /\ Count(Added, "github.create_pr") = 1)
      ]_vars

\* a run that found no pull request, pushed, and created one
C4_Witness ==
    /\ pr.pc = "done"
    /\ pr.rc = 0
    /\ pr.existing = 0
    /\ pr.pushed = "ok"
    /\ Count(calls, "push_branch") = 1
    /\ Count(calls, "github.create_pr") = 1
    /\ HoldsOpen(host, pr.github_repo, pr.branch)

(***************************************************************************)
(* work_end.                                                               *)
(***************************************************************************)
\* the parameters of get_commits_since_base, in order
GetCommitsParams == <<"repo_root", "base_branch">>

\* the call work_end makes: one positional argument and the keyword remote
WorkEndCommitsCall == [positional |-> 1, keywords |-> {"remote"}]

\* whether Python can bind a call to a parameter list; a call that does not
\* bind raises TypeError
Binds(call, params) ==
    /\ call.positional <= Len(params)
    /\ \A k \in call.keywords :
          \E i \in (call.positional + 1)..Len(params) : params[i] = k

WeFrame0 ==
    [pc |-> "idle", branch |-> None, issue_key |-> None, github_repo |-> None,
     message |-> None, no_comment |-> FALSE, no_pr_comment |-> FALSE,
     no_jira_comment |-> FALSE, request_review |-> FALSE, jira |-> FALSE,
     reviewers |-> FALSE, found |-> 0, pr_commented |-> FALSE, jira_commented |-> FALSE,
     reviewers_requested |-> FALSE, rc |-> -1]

WeInit ==
    /\ repo \in PrRepoStates
    /\ host \in SUBSET HostPrs
    /\ we = WeFrame0
    /\ calls = <<>>
    /\ ws = IdleWs /\ pr = IdlePr /\ sl = IdleSl /\ db = IdleDb
    /\ LaterIdle /\ LatestIdle

\* work_end, lines 82-111: branch, issue key, repository and client
WeBegin ==
    /\ we.pc = "idle"
    /\ \E github_repo \in {None, OrgRepo}, token \in {None, <<"t">>}, j \in JiraCfgs,
          message \in {None, <<"m">>}, no_comment \in BOOLEAN, no_pr_comment \in BOOLEAN,
          no_jira_comment \in BOOLEAN, request_review \in BOOLEAN, reviewers \in BOOLEAN :
         LET branch == current_branch(repo)
             issue_key == IF Truthy(branch) THEN extract_issue_key_from_branch(branch) ELSE None
             f == [WeFrame0 EXCEPT !.branch = branch, !.issue_key = issue_key,
                                   !.message = message, !.no_comment = no_comment,
                                   !.no_pr_comment = no_pr_comment,
                                   !.no_jira_comment = no_jira_comment,
                                   !.request_review = request_review]
             fail == [f EXCEPT !.pc = "done", !.rc = 1]
         IN IF ~Truthy(branch) THEN we' = fail
            ELSE IF ~Truthy(issue_key) THEN we' = fail
            ELSE IF ~Truthy(github_repo) THEN we' = fail
            ELSE IF ~Truthy(token) THEN we' = [fail EXCEPT !.github_repo = github_repo]
            ELSE we' = [f EXCEPT !.pc = "lookup", !.github_repo = github_repo,
                                 !.jira = JiraFromConfig(j), !.reviewers = reviewers]
    /\ UNCHANGED <<repo, host, calls, ws, pr, sl, db>>
    /\ UNCHANGED later /\ UNCHANGED latest

\* lines 113-126: the pull request of the branch, open or closed
WeLookup ==
    /\ we.pc = "lookup"
    /\ \E status \in GetStatuses :
         LET found == get_pr_for_branch(host, we.github_repo, we.branch, "all", status)
         IN /\ calls' = Append(calls, [op |-> "github.list_prs", name |-> we.branch,
                                       from |-> <<"all">>])
            /\ IF found = 0
               THEN we' = [we EXCEPT !.pc = "done", !.rc = 1]
               ELSE we' = [we EXCEPT !.pc = "update", !.found = found]
    /\ UNCHANGED <<repo, host, ws, pr, sl, db>>
    /\ UNCHANGED later /\ UNCHANGED latest

\* lines 146-155: the comment on the pull request
PrCommentStep(f, status) ==
    IF ~f.no_comment /\ ~f.no_pr_comment
    THEN [calls |-> <<Call("github.add_pr_comment")>>, ok |-> (status = "201")]
    ELSE [calls |-> <<>>, ok |-> FALSE]

\* lines 157-177: the comment on the tracker issue
JiraCommentStep(f, post) ==
    IF ~f.no_comment /\ ~f.no_jira_comment /\ f.jira
    THEN [calls |-> <<Call("jira.post_comment_with_link")>>,
          raised |-> (post = "raise"), ok |-> (post \in {"201", "200"})]
    ELSE [calls |-> <<>>, raised |-> FALSE, ok |-> FALSE]

\* lines 179-197: the request for reviewers
ReviewStep(f, status) ==
    IF f.request_review /\ f.reviewers
    THEN [calls |-> <<Call("github.request_reviewers")>>, ok |-> (status \in {"201", "200"})]
    ELSE [calls |-> <<>>, ok |-> FALSE]

\* lines 128-207: commits, summary, the two comments, reviewers
WeUpdate ==
    /\ we.pc = "update"
    /\ IF ~Binds(WorkEndCommitsCall, GetCommitsParams)
       THEN \* get_commits_since_base(repo_root, remote=remote) raises TypeError
            /\ we' = [we EXCEPT !.pc = "raised"]
            /\ calls' = calls
       ELSE \E st1 \in {"raise", "201", "404"}, post \in PostStatuses,
               st2 \in {"raise", "201", "200", "422"} :
              LET c1 == PrCommentStep(we, st1)
                  c2 == JiraCommentStep(we, post)
                  c3 == ReviewStep(we, st2)
              IN IF c2.raised
                 THEN /\ calls' = calls \o c1.calls \o c2.calls
                      /\ we' = [we EXCEPT !.pc = "raised", !.pr_commented = c1.ok]
                 ELSE /\ calls' = calls \o c1.calls \o c2.calls \o c3.calls
                      /\ we' = [we EXCEPT !.pc = "done", !.rc = 0, !.pr_commented = c1.ok,
                                          !.jira_commented = c2.ok,
                                          !.reviewers_requested = c3.ok]
    /\ UNCHANGED <<repo, host, ws, pr, sl, db>>
    /\ UNCHANGED later /\ UNCHANGED latest

WeNext == WeBegin \/ WeLookup \/ WeUpdate

SpecWorkEnd == WeInit /\ [][WeNext]_vars

\* C5: work_end looks the pull request up in all states; without one it
\* returns 1 having commented nowhere and requested no reviewer; with one,
\* open or closed, it goes on to the status update.
C5_FoundPrProceeds ==
    /\ \A i \in 1..Len(calls) :
          calls[i].op = "github.list_prs" => calls[i].from = <<"all">>
    /\ (we.pc = "done" /\ we.found = 0) =>
          /\ we.rc = 1
          /\ Count(calls, "github.add_pr_comment") = 0
          /\ Count(calls, "jira.post_comment_with_link") = 0
          /\ Count(calls, "github.request_reviewers") = 0
    /\ we.found # 0 => we.pc \in {"update", "done"}
    /\ (we.found # 0 /\ we.pc = "done") => we.rc = 0

\* C6: at the end of a run that found the pull request, each target that is
\* not suppressed (and, for the tracker, configured) has received exactly one
\* comment call and each suppressed target none, whatever happened to the
\* other comment.
C6_CommentsIndependent ==
    (we.found # 0 /\ we.pc \in {"done", "raised"}) =>
        /\ Count(calls, "github.add_pr_comment")
              = IF ~we.no_comment /\ ~we.no_pr_comment THEN 1 ELSE 0
        /\ Count(calls, "jira.post_comment_with_link")
              = IF ~we.no_comment /\ ~we.no_jira_comment /\ we.jira THEN 1 ELSE 0


(***************************************************************************)
(* collect_work_data: the digest's collection from the code host and the   *)
(* tracker.  The searches' results are the environment's; the routing of   *)
(* closed pull requests and the constraints passed are the collector's.    *)
(***************************************************************************)
MaxClosed == 2     \* longest list get_closed_prs returns

Me == <<"m", "e">>
Org == <<"o", "r", "g">>
ProjectKey == <<"A", "B">>
CurrentUserJql == <<"c", "u", "r", "r", "e", "n", "t", "U", "s", "e", "r", "(", ")">>
Stamp == <<"2", "0", "2", "5">>
Sinces == {<<"d", "1">>, <<"d", "2">>}

\* d.get(key, default), for a dict given by the keys it has and their values
DictGet(d, key, default) == IF key \in d.has THEN d[key] ELSE default

\* get_closed_prs, client.py 462-476.  An item of the search has a number
\* and no merged_at of its own; the details of a pull request carry
\* merged_at, a timestamp when it was merged and null when not.  query is
\* the search that matched the pull request.
SearchItem(number, query) ==
    [has |-> {"number"}, number |-> number, merged_at |-> None, query |-> query]
PrDetails(number, query) ==
    [has |-> {"number", "merged_at"}, number |-> number,
     merged_at |-> IF query = "merged" THEN Stamp ELSE None, query |-> query]

\* prs.append(pr_details) if pr_details else prs.append(item)
DetailsOrItem(item, fetched) ==
    IF fetched THEN PrDetails(item.number, item.query) ELSE item

\* the results of the merged query, then those of the unmerged query
QueryOrders(n) == {[i \in 1..n |-> IF i <= k THEN "merged" ELSE "unmerged"] : k \in 0..n}

\* the lists get_closed_prs can return: numbered by position, each detail
\* request succeeding or failing
ClosedLists ==
    UNION {{[i \in 1..n |-> DetailsOrItem(SearchItem(i, q[i]), ok[i])] :
              q \in QueryOrders(n), ok \in [1..n -> BOOLEAN]} : n \in 0..MaxClosed}
OpenedLists == {<<>>, <<[has |-> {"number", "merged_at"}, number |-> 7, merged_at |-> None]>>}
IssueLists == {<<>>, <<Key1>>, <<Key1, Key2>>}

UserStatuses == {"raise", "200", "401"}

\* GitHubClient.get_current_user: the login, None on any failure
get_current_user(status) == IF status = "200" THEN Me ELSE None

\* GitHubClient.search_prs_by_date: nothing without a scope, else the items
\* the pages gave
search_prs_by_date(repository, org, items) ==
    IF Truthy(org) \/ Truthy(repository) THEN items ELSE <<>>

\* GitHubClient.get_closed_prs: nothing without a scope, else the pull
\* requests of the merged and of the unmerged search
get_closed_prs(repository, org, items) ==
    IF Truthy(org) \/ Truthy(repository) THEN items ELSE <<>>

\* JiraClient.get_issues_created_since / get_issues_updated_since: the
\* issues found, an empty list on failure
get_issues_since(found) == found

IsMerged_key_present(p) == "merged_at" \in p.has

\* if pr.get("merged_at")
IsMerged(p) == Truthy(DictGet(p, "merged_at", None))

\* for pr in all_closed: append to prs_merged or to prs_closed
RECURSIVE Separate(_, _, _)
Separate(all_closed, merged, closed) ==
    IF all_closed = <<>> THEN [prs_merged |-> merged, prs_closed |-> closed]
    ELSE IF IsMerged(Head(all_closed))
         THEN Separate(Tail(all_closed), Append(merged, Head(all_closed)), closed)
         ELSE Separate(Tail(all_closed), merged, Append(closed, Head(all_closed)))

Assignee_wildcard(include_own_issues) ==
    IF include_own_issues THEN CurrentUserJql ELSE <<"*">>

\* assignee = "currentUser()" if include_own_issues else None
Assignee(include_own_issues) ==
    IF include_own_issues THEN CurrentUserJql ELSE None

ProjectsToSearch_projects_only(jira_projects, jira_project) ==
    IF Truthy(jira_projects) THEN jira_projects ELSE None

\* jira_projects if jira_projects else (jira_project if jira_project else None)
ProjectsToSearch(jira_projects, jira_project) ==
    IF Truthy(jira_projects) THEN jira_projects
    ELSE IF Truthy(jira_project) THEN jira_project ELSE None

\* config["daily_summary"], each key possibly missing
SummaryKeys == {"include_own_prs_only", "include_own_issues_only", "github_org", "jira_projects"}
SummaryConfigs ==
    {c \in [has : SUBSET SummaryKeys,
            include_own_prs_only : BOOLEAN,
            include_own_issues_only : BOOLEAN,
            github_org : {Org},
            jira_projects : {<<>>, <<"P", "Q">>}] :
        /\ "include_own_prs_only" \notin c.has => ~c.include_own_prs_only
        /\ "include_own_issues_only" \notin c.has => ~c.include_own_issues_only
        /\ "jira_projects" \notin c.has => c.jira_projects = <<>>}

CwFrame0 ==
    [pc |-> "idle", github_client |-> FALSE, jira_client |-> FALSE,
     github_repo |-> None, jira_project |-> None, since |-> None,
     include_own_prs |-> TRUE, include_own_issues |-> TRUE,
     github_org |-> None, jira_projects |-> None,
     github_user |-> None, all_closed |-> <<>>,
     prs_opened |-> <<>>, prs_closed |-> <<>>, prs_merged |-> <<>>,
     jira_created |-> <<>>, jira_updated |-> <<>>, data |-> <<>>]

CwInit ==
    /\ cw = CwFrame0
    /\ repo = IdleRepo /\ host = IdleHost /\ calls = <<>>
    /\ LatestIdle
    /\ ws = IdleWs /\ pr = IdlePr /\ we = IdleWe /\ sl = IdleSl /\ db = IdleDb
    /\ bd = IdleBd /\ cachefile = NoFile /\ clock = 0
    /\ pp = IdlePp /\ ld = IdleLd /\ ds = IdleDs

CwOthers == <<bd, cachefile, clock, pp, ld, ds>>

\* the arguments and the configuration read (collector.py 47-59)
CwBegin ==
    /\ cw.pc = "idle"
    /\ \E gh \in BOOLEAN, jc \in BOOLEAN, gr \in {None, OrgRepo}, jp \in {None, ProjectKey},
          since \in Sinces, sc \in SummaryConfigs :
           cw' = [cw EXCEPT
                    !.github_client = gh, !.jira_client = jc,
                    !.github_repo = gr, !.jira_project = jp, !.since = since,
                    !.include_own_prs = DictGet(sc, "include_own_prs_only", TRUE),
                    !.include_own_issues = DictGet(sc, "include_own_issues_only", TRUE),
                    !.github_org = DictGet(sc, "github_org", None),
                    !.jira_projects = DictGet(sc, "jira_projects", None),
                    !.pc = IF ~gh THEN "jira"
                           ELSE IF DictGet(sc, "include_own_prs_only", TRUE) THEN "user"
                           ELSE "opened"]
    /\ UNCHANGED calls
    /\ UNCHANGED earlier /\ UNCHANGED latest
    /\ UNCHANGED CwOthers

\* github_user = github_client.get_current_user()
CwUser ==
    /\ cw.pc = "user"
    /\ \E status \in UserStatuses :
        /\ cw' = [cw EXCEPT !.github_user = get_current_user(status), !.pc = "opened"]
        /\ calls' = Append(calls, [op |-> "get_current_user", value |-> get_current_user(status)])
    /\ UNCHANGED earlier /\ UNCHANGED latest
    /\ UNCHANGED CwOthers

\* prs_opened = github_client.search_prs_by_date(...), org-wide or for the
\* repository; without either, all_closed = []
CwOpened ==
    /\ cw.pc = "opened"
    /\ IF Truthy(cw.github_org) \/ Truthy(cw.github_repo)
       THEN \E items \in OpenedLists :
              LET repository == IF Truthy(cw.github_org) THEN None ELSE cw.github_repo IN
                /\ cw' = [cw EXCEPT
                            !.prs_opened = search_prs_by_date(repository, cw.github_org, items),
                            !.pc = "closed"]
                /\ calls' = Append(calls, [op |-> "search_prs_by_date", repository |-> repository,
                                           since |-> cw.since, author |-> cw.github_user,
                                           state |-> "all", org |-> cw.github_org,
                                           value |-> search_prs_by_date(repository, cw.github_org, items)])
       ELSE /\ cw' = [cw EXCEPT !.all_closed = <<>>, !.pc = "separate"]
            /\ UNCHANGED calls
    /\ UNCHANGED earlier /\ UNCHANGED latest
    /\ UNCHANGED CwOthers

\* all_closed = github_client.get_closed_prs(...)
CwClosed ==
    /\ cw.pc = "closed"
    /\ \E items \in ClosedLists :
          LET repository == IF Truthy(cw.github_org) THEN None ELSE cw.github_repo IN
            /\ cw' = [cw EXCEPT
                        !.all_closed = get_closed_prs(repository, cw.github_org, items),
                        !.pc = "separate"]
            /\ calls' = Append(calls, [op |-> "get_closed_prs", repository |-> repository,
                                       since |-> cw.since, author |-> cw.github_user,
                                       org |-> cw.github_org,
                                       value |-> get_closed_prs(repository, cw.github_org, items)])
    /\ UNCHANGED earlier /\ UNCHANGED latest
    /\ UNCHANGED CwOthers

\* the loop separating closed from merged
CwSeparate ==
    /\ cw.pc = "separate"
    /\ LET parts == Separate(cw.all_closed, <<>>, <<>>) IN
         cw' = [cw EXCEPT !.prs_merged = parts.prs_merged,
                          !.prs_closed = parts.prs_closed, !.pc = "jira"]
    /\ UNCHANGED calls
    /\ UNCHANGED earlier /\ UNCHANGED latest
    /\ UNCHANGED CwOthers

\* jira_created = jira_client.get_issues_created_since(...), when there is
\* a client and a project to search
CwJiraCreated ==
    /\ cw.pc = "jira"
    /\ LET projects == ProjectsToSearch(cw.jira_projects, cw.jira_project) IN
         IF cw.jira_client /\ Truthy(projects)
         THEN \E found \in IssueLists :
                /\ cw' = [cw EXCEPT !.jira_created = get_issues_since(found), !.pc = "updated"]
                /\ calls' = Append(calls, [op |-> "get_issues_created_since", projects |-> projects,
                                           since |-> cw.since,
                                           assignee |-> Assignee(cw.include_own_issues),
                                           value |-> get_issues_since(found)])
         ELSE /\ cw' = [cw EXCEPT !.pc = "return"]
              /\ UNCHANGED calls
    /\ UNCHANGED earlier /\ UNCHANGED latest
    /\ UNCHANGED CwOthers

\* jira_updated = jira_client.get_issues_updated_since(...)
CwJiraUpdated ==
    /\ cw.pc = "updated"
    /\ LET projects == ProjectsToSearch(cw.jira_projects, cw.jira_project) IN
         \E found \in IssueLists :
            /\ cw' = [cw EXCEPT !.jira_updated = get_issues_since(found), !.pc = "return"]
            /\ calls' = Append(calls, [op |-> "get_issues_updated_since", projects |-> projects,
                                       since |-> cw.since,
                                       assignee |-> Assignee(cw.include_own_issues),
                                       value |-> get_issues_since(found)])
    /\ UNCHANGED earlier /\ UNCHANGED latest
    /\ UNCHANGED CwOthers

\* return WorkSummaryData(...)
CwReturn ==
    /\ cw.pc = "return"
    /\ cw' = [cw EXCEPT !.pc = "done",
                        !.data = [prs_opened |-> cw.prs_opened, prs_closed |-> cw.prs_closed,
                                  prs_merged |-> cw.prs_merged, jira_created |-> cw.jira_created,
                                  jira_updated |-> cw.jira_updated, start_time |-> cw.since]]
    /\ UNCHANGED calls
    /\ UNCHANGED earlier /\ UNCHANGED latest
    /\ UNCHANGED CwOthers

CwNext ==
    \/ CwBegin \/ CwUser \/ CwOpened \/ CwClosed \/ CwSeparate
    \/ CwJiraCreated \/ CwJiraUpdated \/ CwReturn

SpecCollect == CwInit /\ [][CwNext]_vars

\* the calls of one operation, in order
CallsOf(op) == SelectSeq(calls, LAMBDA c : c.op = op)
Elems(s) == {s[i] : i \in 1..Len(s)}

\* C11: every pull request get_closed_prs returned is in exactly one of
\* prs_merged (merged_at present and not None) and prs_closed (merged_at
\* absent or None); the two lengths add up to the number returned, no pull
\* request is in both, and each list keeps the original relative order.
C11_ClosedPartition ==
    cw.pc = "done" =>
        LET all == cw.all_closed
            merged == cw.data.prs_merged
            closed == cw.data.prs_closed
        IN  /\ Len(merged) + Len(closed) = Len(all)
            /\ Elems(merged) \cap Elems(closed) = {}
            /\ Elems(merged) \cup Elems(closed) = Elems(all)
            /\ \A p \in Elems(merged) : "merged_at" \in p.has /\ p.merged_at # None
            /\ \A p \in Elems(closed) : "merged_at" \notin p.has \/ p.merged_at = None
            /\ merged = SelectSeq(all, LAMBDA p : p \in Elems(merged))
            /\ closed = SelectSeq(all, LAMBDA p : p \in Elems(closed))
            /\ (Count(calls, "get_closed_prs") = 1 => all = CallsOf("get_closed_prs")[1].value)

C11_Witness ==
    /\ cw.pc = "done"
    /\ Count(calls, "get_closed_prs") = 1
    /\ Len(cw.data.prs_merged) = 1
    /\ Len(cw.data.prs_closed) = 1
    /\ "merged_at" \in cw.data.prs_closed[1].has
    /\ cw.data.prs_closed[1].number = 2

\* C12: the current user is resolved at most once and only when
\* include_own_prs_only holds; both pull-request searches get that one value
\* as author, and None when the filter is off; the tracker searches get
\* assignee currentUser() when include_own_issues_only holds and None when
\* it does not.
C12_OwnFilters ==
    LET users == CallsOf("get_current_user")
        searches == CallsOf("search_prs_by_date") \o CallsOf("get_closed_prs")
        tracker == CallsOf("get_issues_created_since") \o CallsOf("get_issues_updated_since")
    IN  /\ Len(users) <= 1
        /\ Len(users) = 1 => cw.include_own_prs
        /\ \A i \in 1..Len(searches) :
              /\ Len(users) = 1 => searches[i].author = users[1].value
              /\ ~cw.include_own_prs => searches[i].author = None
        /\ \A i \in 1..Len(tracker) :
              tracker[i].assignee = IF cw.include_own_issues THEN CurrentUserJql ELSE None

C12_Witness ==
    /\ cw.pc = "done"
    /\ ~cw.include_own_issues
    /\ Count(calls, "get_current_user") = 1
    /\ Count(calls, "search_prs_by_date") = 1
    /\ Count(calls, "get_closed_prs") = 1
    /\ CallsOf("get_closed_prs")[1].author = Me
    /\ Count(calls, "get_issues_created_since") = 1
    /\ Count(calls, "get_issues_updated_since") = 1

\* C13: whichever clients are present, the call returns; an absent client's
\* categories are empty lists, a present client's categories hold what its
\* searches returned, and start_time is the given since.
C13_AbsentClientDegrades ==
    cw.pc = "done" =>
        /\ cw.data.start_time = cw.since
        /\ ~cw.github_client =>
              cw.data.prs_opened = <<>> /\ cw.data.prs_closed = <<>> /\ cw.data.prs_merged = <<>>
        /\ ~cw.jira_client => cw.data.jira_created = <<>> /\ cw.data.jira_updated = <<>>
        /\ cw.github_client /\ (Truthy(cw.github_org) \/ Truthy(cw.github_repo)) =>
              /\ Count(calls, "search_prs_by_date") = 1
              /\ Count(calls, "get_closed_prs") = 1
              /\ cw.data.prs_opened = CallsOf("search_prs_by_date")[1].value
              /\ Len(cw.data.prs_closed) + Len(cw.data.prs_merged)
                    = Len(CallsOf("get_closed_prs")[1].value)
        /\ cw.jira_client /\ (Truthy(cw.jira_projects) \/ Truthy(cw.jira_project)) =>
              /\ Count(calls, "get_issues_created_since") = 1
              /\ Count(calls, "get_issues_updated_since") = 1
              /\ cw.data.jira_created = CallsOf("get_issues_created_since")[1].value
              /\ cw.data.jira_updated = CallsOf("get_issues_updated_since")[1].value

C13_Witness ==
    /\ cw.pc = "done"
    /\ ~cw.github_client
    /\ cw.jira_client
    /\ cw.jira_projects = None
    /\ cw.jira_project = ProjectKey
    /\ Len(cw.data.jira_created) = 1
    /\ Len(cw.data.jira_updated) = 2


(***************************************************************************)
(* get_previous_business_day over the proleptic Gregorian calendar of      *)
(* Python's datetime: ordinals, weekdays, subtraction of whole days and    *)
(* replace().                                                              *)
(***************************************************************************)
LastYear == 2025     \* last year instants are drawn from

Years == (LastYear - 1)..LastYear

IsLeap(y) == y % 4 = 0 /\ (y % 100 # 0 \/ y % 400 = 0)

DaysInMonth(y, m) ==
    IF m = 2 THEN (IF IsLeap(y) THEN 29 ELSE 28)
    ELSE IF m \in {4, 6, 9, 11} THEN 30 ELSE 31

\* days before January 1st of year y
DaysBeforeYear(y) == (y - 1) * 365 + (y - 1) \div 4 - (y - 1) \div 100 + (y - 1) \div 400

RECURSIVE DaysBeforeMonth(_, _)
DaysBeforeMonth(y, m) ==
    IF m = 1 THEN 0 ELSE DaysBeforeMonth(y, m - 1) + DaysInMonth(y, m - 1)

\* date.toordinal(): January 1st of year 1 is day 1
ToOrdinal(t) == DaysBeforeYear(t.year) + DaysBeforeMonth(t.year, t.month) + t.day

\* date.fromordinal(), for the years around those drawn
FromOrdinal(n) ==
    LET y == CHOOSE yy \in (LastYear - 2)..(LastYear + 1) :
                 DaysBeforeYear(yy) < n /\ n <= DaysBeforeYear(yy + 1)
        m == CHOOSE mm \in 1..12 :
                 /\ DaysBeforeYear(y) + DaysBeforeMonth(y, mm) < n
                 /\ n <= DaysBeforeYear(y) + DaysBeforeMonth(y, mm) + DaysInMonth(y, mm)
    IN  [year |-> y, month |-> m, day |-> n - DaysBeforeYear(y) - DaysBeforeMonth(y, m)]

\* datetime.weekday(): 0 is Monday, 6 is Sunday
weekday(t) == (ToOrdinal(t) + 6) % 7

\* current_time - timedelta(days=n): the date moves, the time of day and
\* the tzinfo stay
MinusDays(t, n) ==
    LET date == FromOrdinal(ToOrdinal(t) - n) IN
      [t EXCEPT !.year = date.year, !.month = date.month, !.day = date.day]

\* previous_day.replace(hour=0, minute=0, second=0, microsecond=0)
ReplaceMidnight(t) == [t EXCEPT !.hour = 0, !.minute = 0, !.second = 0, !.microsecond = 0]

days_back_sunday_as_saturday(wd) ==
    IF wd = 0 THEN 3 ELSE IF wd \in {5, 6} THEN 1 ELSE 1

\* days_back, by weekday
days_back(wd) ==
    IF wd = 0 THEN 3 ELSE IF wd = 5 THEN 1 ELSE IF wd = 6 THEN 2 ELSE 1

get_previous_business_day(current_time) ==
    ReplaceMidnight(MinusDays(current_time, days_back(weekday(current_time))))

TimesOfDay ==
    {[hour |-> 0, minute |-> 0, second |-> 0, microsecond |-> 0],
     [hour |-> 12, minute |-> 30, second |-> 0, microsecond |-> 0],
     [hour |-> 23, minute |-> 59, second |-> 59, microsecond |-> 999999]}

\* naive, UTC and a fixed offset
Tzinfos == {None, <<"U", "T", "C">>, <<"+", "0", "5", ":", "3", "0">>}

Instants ==
    {[year |-> y, month |-> m, day |-> d, hour |-> tod.hour, minute |-> tod.minute,
      second |-> tod.second, microsecond |-> tod.microsecond, tzinfo |-> tz] :
        y \in Years, m \in 1..12, d \in 1..31, tod \in TimesOfDay, tz \in Tzinfos}

BdInit ==
    /\ bd \in {[pc |-> "ready", t |-> t, result |-> t] : t \in {i \in Instants : i.day <= DaysInMonth(i.year, i.month)}}
    /\ repo = IdleRepo /\ host = IdleHost /\ calls = <<>>
    /\ LatestIdle
    /\ ws = IdleWs /\ pr = IdlePr /\ we = IdleWe /\ sl = IdleSl /\ db = IdleDb
    /\ cw = IdleCw /\ cachefile = NoFile /\ clock = 0
    /\ pp = IdlePp /\ ld = IdleLd /\ ds = IdleDs

\* since = get_previous_business_day(datetime.now())
PreviousBusinessDayCall ==
    /\ bd.pc = "ready"
    /\ bd' = [bd EXCEPT !.pc = "done", !.result = get_previous_business_day(bd.t)]
    /\ UNCHANGED calls
    /\ UNCHANGED earlier /\ UNCHANGED latest
    /\ UNCHANGED <<cw, cachefile, clock, pp, ld, ds>>

BdNext == PreviousBusinessDayCall

SpecBusinessDay == BdInit /\ [][BdNext]_vars

\* C14: the result is midnight of the day 3 days before a Monday, 2 days
\* before a Sunday and 1 day before any other day; it is a valid date on a
\* Monday-to-Friday day strictly before the instant's day, across month and
\* year ends, with the instant's tzinfo.
C14_PreviousBusinessDay ==
    bd.pc = "done" =>
        LET t == bd.t
            r == bd.result
            back == IF weekday(t) = 0 THEN 3 ELSE IF weekday(t) = 6 THEN 2 ELSE 1
        IN  /\ r.hour = 0 /\ r.minute = 0 /\ r.second = 0 /\ r.microsecond = 0
            /\ r.month \in 1..12 /\ r.day \in 1..DaysInMonth(r.year, r.month)
            /\ ToOrdinal(r) = ToOrdinal(t) - back
            /\ weekday(r) \in 0..4
            /\ ToOrdinal(r) < ToOrdinal(t)
            /\ r.tzinfo = t.tzinfo

\* Monday 1 January of the leap year gives Friday 29 December of the year
\* before, and 13 January 2025 is the Monday the tests use
C14_Witness ==
    /\ bd.pc = "done"
    /\ bd.t.year = LastYear - 1 /\ IsLeap(bd.t.year) /\ bd.t.month = 1 /\ bd.t.day = 1
    /\ bd.t.hour = 23 /\ bd.t.tzinfo = <<"U", "T", "C">>
    /\ weekday(bd.t) = 0
    /\ bd.result.year = bd.t.year - 1 /\ bd.result.month = 12 /\ bd.result.day = 29
    /\ weekday([year |-> 2025, month |-> 1, day |-> 13]) = 0


(***************************************************************************)
(* The prompt's status cache: one JSON file of issue key -> {status,       *)
(* timestamp}, read by get_cached_status and read, then rewritten, by      *)
(* set_cached_status, with no lock.  Each process takes the file system    *)
(* calls of these functions one at a time; time passes between them.  The  *)
(* file system itself works: open, read and write do not fail.             *)
(***************************************************************************)
MaxOps == 3        \* calls the prompt processes make in all
MaxTicks == 2      \* times the clock advances
MaxProcs == 2      \* prompt processes racing on the file

CACHE_TTL == 300

\* the clock advances by half the TTL at a time: ages 0, 150, 300, ...
TickSeconds == CACHE_TTL \div 2

CacheKeys == {Key1, Key2}
CacheStatuses == {InProgress, DoneName}

\* a file json.load rejects, such as "{invalid json"
Malformed == [kind |-> "file", valid |-> FALSE, entries |-> {}, empty |-> FALSE]
\* the file right after open('w')
Truncated == [kind |-> "file", valid |-> FALSE, entries |-> {}, empty |-> TRUE]
\* json.dump(cache, f) on an empty file
Dumped(cache) == [kind |-> "file", valid |-> TRUE, entries |-> cache, empty |-> FALSE]

\* json.load(f): the dict, or JSONDecodeError on an empty, cut or overlaid text
JsonLoad(file) ==
    IF file.valid THEN [exc |-> "", value |-> file.entries]
    ELSE [exc |-> "JSONDecodeError", value |-> {}]

GetCaught_without_decode_error == {"KeyError", "OSError"}

\* except (json.JSONDecodeError, KeyError, OSError) in get_cached_status
GetCaught == {"JSONDecodeError", "KeyError", "OSError"}

\* except (json.JSONDecodeError, OSError) in set_cached_status
SetCaught == {"JSONDecodeError", "OSError"}

Fresh_inclusive(now, timestamp) == now - timestamp <= CACHE_TTL

\* time.time() - entry['timestamp'] < CACHE_TTL
Fresh(now, timestamp) == now - timestamp < CACHE_TTL

Lookup_any_key(cache, issue_key) == cache

\* the entries of cache under issue_key: at most one
Lookup(cache, issue_key) == {e \in cache : e.key = issue_key}

\* cache[issue_key] = {'status': status, 'timestamp': time.time()}
Assign(cache, issue_key, status, now) ==
    {e \in cache : e.key # issue_key}
        \cup {[key |-> issue_key, status |-> status, timestamp |-> now]}

IdleProc ==
    [pc |-> "idle", op |-> "", key |-> None, status |-> None, cache |-> {},
     at |-> 0, result |-> None, raised |-> FALSE,
     saw |-> "", before |-> NoFile, prev |-> ""]

CacheInit(n) ==
    /\ cachefile \in {NoFile, Malformed}
    /\ clock = 0
    /\ pp = [procs |-> [p \in 1..n |-> IdleProc], stored |-> <<>>, ticks |-> 0, ops |-> 0]
    /\ repo = IdleRepo /\ host = IdleHost /\ calls = <<>>
    /\ LatestIdle
    /\ ws = IdleWs /\ pr = IdlePr /\ we = IdleWe /\ sl = IdleSl /\ db = IdleDb
    /\ cw = IdleCw /\ bd = IdleBd /\ ld = IdleLd /\ ds = IdleDs

CacheOthers == <<cw, bd, ld, ds>>

Proc(p) == pp.procs[p]
SetProc(p, f) == pp' = [pp EXCEPT !.procs[p] = f]
Returned(f, op) == f.pc = "returned" /\ f.op = op
StartProc(p, f) == pp' = [pp EXCEPT !.procs[p] = f, !.ops = @ + 1]

\* a call of get_cached_status(issue_key)
CallGet(p) ==
    /\ Proc(p).pc \in {"idle", "returned"}
    /\ pp.ops < MaxOps
    /\ \E k \in CacheKeys :
         StartProc(p, [Proc(p) EXCEPT !.pc = "g_read", !.op = "get", !.key = k, !.status = None,
                                    !.cache = {}, !.result = None, !.saw = "",
                                    !.before = cachefile,
                                    !.prev = IF Proc(p).pc = "returned" THEN Proc(p).op ELSE ""])
    /\ UNCHANGED <<cachefile, clock, calls>>
    /\ UNCHANGED earlier /\ UNCHANGED latest
    /\ UNCHANGED CacheOthers

\* a call of set_cached_status(issue_key, status); CACHE_DIR.mkdir
CallSet(p) ==
    /\ Proc(p).pc \in {"idle", "returned"}
    /\ pp.ops < MaxOps
    /\ \E k \in CacheKeys, s \in CacheStatuses :
         StartProc(p, [Proc(p) EXCEPT !.pc = "s_read", !.op = "set", !.key = k, !.status = s,
                                    !.cache = {}, !.result = None, !.saw = "",
                                    !.before = cachefile,
                                    !.prev = IF Proc(p).pc = "returned" THEN Proc(p).op ELSE ""])
    /\ UNCHANGED <<cachefile, clock, calls>>
    /\ UNCHANGED earlier /\ UNCHANGED latest
    /\ UNCHANGED CacheOthers

\* get_cached_status: no file gives None; else open and json.load, a
\* caught exception gives None
GetRead(p) ==
    /\ Proc(p).pc = "g_read"
    /\ IF cachefile.kind = "none"
       THEN SetProc(p, [Proc(p) EXCEPT !.pc = "returned", !.result = None, !.saw = "none"])
       ELSE LET loaded == JsonLoad(cachefile) IN
              IF loaded.exc = ""
              THEN SetProc(p, [Proc(p) EXCEPT !.pc = "g_eval", !.cache = loaded.value,
                                              !.saw = "valid"])
              ELSE SetProc(p, [Proc(p) EXCEPT !.pc = "returned", !.result = None,
                                              !.raised = loaded.exc \notin GetCaught,
                                              !.saw = "malformed"])
    /\ UNCHANGED <<cachefile, clock, calls>>
    /\ UNCHANGED earlier /\ UNCHANGED latest
    /\ UNCHANGED CacheOthers

\* get_cached_status: the entry's status if the key is there and fresh
GetEval(p) ==
    /\ Proc(p).pc = "g_eval"
    /\ LET found == Lookup(Proc(p).cache, Proc(p).key)
           fresh == {e \in found : Fresh(clock, e.timestamp)} IN
         IF fresh # {}
         THEN \E e \in fresh :
                SetProc(p, [Proc(p) EXCEPT !.pc = "returned", !.result = e.status, !.at = clock,
                                           !.cache = {}])
         ELSE SetProc(p, [Proc(p) EXCEPT !.pc = "returned", !.result = None, !.at = clock,
                                         !.cache = {}])
    /\ UNCHANGED <<cachefile, clock, calls>>
    /\ UNCHANGED earlier /\ UNCHANGED latest
    /\ UNCHANGED CacheOthers

\* set_cached_status: cache = {} unless the file exists and loads
SetRead(p) ==
    /\ Proc(p).pc = "s_read"
    /\ IF cachefile.kind = "none"
       THEN SetProc(p, [Proc(p) EXCEPT !.pc = "s_stamp", !.cache = {}, !.saw = "none"])
       ELSE LET loaded == JsonLoad(cachefile) IN
              IF loaded.exc = ""
              THEN SetProc(p, [Proc(p) EXCEPT !.pc = "s_stamp", !.cache = loaded.value,
                                              !.saw = "valid"])
              ELSE SetProc(p, [Proc(p) EXCEPT
                                 !.pc = IF loaded.exc \in SetCaught THEN "s_stamp" ELSE "returned",
                                 !.raised = loaded.exc \notin SetCaught,
                                 !.cache = {}, !.saw = "malformed"])
    /\ UNCHANGED <<cachefile, clock, calls>>
    /\ UNCHANGED earlier /\ UNCHANGED latest
    /\ UNCHANGED CacheOthers

\* set_cached_status: the new entry, stamped with time.time()
SetStamp(p) ==
    /\ Proc(p).pc = "s_stamp"
    /\ SetProc(p, [Proc(p) EXCEPT !.pc = "s_open", !.at = clock,
                                  !.cache = Assign(@, Proc(p).key, Proc(p).status, clock)])
    /\ UNCHANGED <<cachefile, clock, calls>>
    /\ UNCHANGED earlier /\ UNCHANGED latest
    /\ UNCHANGED CacheOthers

\* set_cached_status: CACHE_FILE.open('w') empties the file
SetOpen(p) ==
    /\ Proc(p).pc = "s_open"
    /\ cachefile' = Truncated
    /\ SetProc(p, [Proc(p) EXCEPT !.pc = "s_dump"])
    /\ UNCHANGED <<clock, calls>>
    /\ UNCHANGED earlier /\ UNCHANGED latest
    /\ UNCHANGED CacheOthers

\* set_cached_status: json.dump and close write the text from offset 0; over
\* an empty file that is the whole file, over a text another process wrote
\* meanwhile the longer text's end may stay behind it
SetDump(p) ==
    /\ Proc(p).pc = "s_dump"
    /\ \/ cachefile' = Dumped(Proc(p).cache)
       \/ ~cachefile.empty /\ cachefile' = Malformed
    /\ pp' = [pp EXCEPT !.procs[p] = [Proc(p) EXCEPT !.pc = "returned", !.cache = {}],
                        !.stored = Append(@, [key |-> Proc(p).key, status |-> Proc(p).status,
                                              timestamp |-> Proc(p).at])]
    /\ UNCHANGED <<clock, calls>>
    /\ UNCHANGED earlier /\ UNCHANGED latest
    /\ UNCHANGED CacheOthers

\* time passes; it is seen only by a process about to call time.time()
Tick ==
    /\ pp.ticks < MaxTicks
    /\ \E p \in DOMAIN pp.procs : Proc(p).pc \in {"g_eval", "s_stamp"}
    /\ clock' = clock + TickSeconds
    /\ pp' = [pp EXCEPT !.ticks = @ + 1]
    /\ UNCHANGED <<cachefile, calls>>
    /\ UNCHANGED earlier /\ UNCHANGED latest
    /\ UNCHANGED CacheOthers

CacheNext ==
    \/ \E p \in DOMAIN pp.procs :
          \/ CallGet(p) \/ CallSet(p) \/ GetRead(p) \/ GetEval(p)
          \/ SetRead(p) \/ SetStamp(p) \/ SetOpen(p) \/ SetDump(p)
    \/ Tick

\* one prompt process at a time, any sequence of reads and writes
SpecCache == CacheInit(1) /\ [][CacheNext]_vars

\* what the tracker answers for an issue: no status, or the status the
\* issue has while the prompts race
TrackerAnswers(issue_key) == {None, IF issue_key = Key1 THEN InProgress ELSE DoneName}

\* fetch_jira_status(issue_key): cached = get_cached_status(issue_key)
FetchCall(p) ==
    /\ Proc(p).pc = "idle"
    /\ \E k \in CacheKeys :
         SetProc(p, [Proc(p) EXCEPT !.pc = "g_read", !.op = "get", !.key = k])
    /\ UNCHANGED <<cachefile, clock, calls>>
    /\ UNCHANGED earlier /\ UNCHANGED latest
    /\ UNCHANGED CacheOthers

\* fetch_jira_status: if cached: return cached
FetchHit(p) ==
    /\ Returned(Proc(p), "get")
    /\ Truthy(Proc(p).result)
    /\ SetProc(p, [IdleProc EXCEPT !.pc = "done", !.op = "hit", !.key = Proc(p).key,
                                   !.result = Proc(p).result])
    /\ UNCHANGED <<cachefile, clock, calls>>
    /\ UNCHANGED earlier /\ UNCHANGED latest
    /\ UNCHANGED CacheOthers

\* fetch_jira_status: on a miss ask the tracker; with a status,
\* set_cached_status(issue_key, status), else return None
FetchMiss(p) ==
    /\ Returned(Proc(p), "get")
    /\ ~Truthy(Proc(p).result)
    /\ \E answer \in TrackerAnswers(Proc(p).key) :
         IF answer = None
         THEN SetProc(p, [IdleProc EXCEPT !.pc = "done", !.op = "miss", !.key = Proc(p).key])
         ELSE SetProc(p, [Proc(p) EXCEPT !.pc = "s_read", !.op = "set", !.status = answer])
    /\ UNCHANGED <<cachefile, clock, calls>>
    /\ UNCHANGED earlier /\ UNCHANGED latest
    /\ UNCHANGED CacheOthers

\* fetch_jira_status: return status
FetchStored(p) ==
    /\ Returned(Proc(p), "set")
    /\ SetProc(p, [IdleProc EXCEPT !.pc = "done", !.op = "stored", !.key = Proc(p).key,
                                   !.result = Proc(p).status])
    /\ UNCHANGED <<cachefile, clock, calls>>
    /\ UNCHANGED earlier /\ UNCHANGED latest
    /\ UNCHANGED CacheOthers

RaceNext ==
    \/ \E p \in DOMAIN pp.procs :
          \/ FetchCall(p) \/ FetchHit(p) \/ FetchMiss(p) \/ FetchStored(p)
          \/ GetRead(p) \/ GetEval(p)
          \/ SetRead(p) \/ SetStamp(p) \/ SetOpen(p) \/ SetDump(p)
    \/ Tick

\* prompt processes racing, each running fetch_jira_status once
SpecCacheRace == CacheInit(MaxProcs) /\ [][RaceNext]_vars

\* the sets of one key completed so far, in order
SetsOf(k) == SelectSeq(pp.stored, LAMBDA e : e.key = k)

\* C15: with one process at a time, get_cached_status(k) returns a status
\* only if the file holds an entry for k younger than 300 seconds, and then
\* the status of the latest set_cached_status(k, .); an entry of 300 seconds
\* or more is not returned; the read leaves the file as it was.
C15_FreshEntriesOnly ==
    \A p \in DOMAIN pp.procs :
        LET f == Proc(p) IN
        Returned(f, "get") =>
            /\ cachefile = f.before
            /\ f.result # None =>
                  /\ cachefile.valid
                  /\ \E e \in cachefile.entries :
                        e.key = f.key /\ e.status = f.result /\ f.at - e.timestamp < 300
                  /\ SetsOf(f.key) # <<>>
                  /\ f.result = SetsOf(f.key)[Len(SetsOf(f.key))].status
            /\ (\E e \in cachefile.entries : e.key = f.key /\ f.at - e.timestamp >= 300)
                  => f.result = None

\* a stale entry was read as a miss and is still in the file
C15_Witness ==
    /\ Returned(Proc(1), "get")
    /\ Proc(1).result = None
    /\ \E e \in cachefile.entries : e.key = Proc(1).key /\ Proc(1).at - e.timestamp = 300

\* a second set of the same key was read back
C15_WitnessLatest ==
    /\ Returned(Proc(1), "get")
    /\ Len(SetsOf(Proc(1).key)) = 2
    /\ SetsOf(Proc(1).key)[1].status # SetsOf(Proc(1).key)[2].status
    /\ Proc(1).result = SetsOf(Proc(1).key)[2].status

C17_RacingReads ==
    \A p \in DOMAIN pp.procs :
        LET f == Proc(p) IN
        /\ ~f.raised
        /\ Returned(f, "get") /\ f.result # None =>
              \E i \in 1..Len(pp.stored) :
                  /\ pp.stored[i].key = f.key
                  /\ pp.stored[i].status = f.result
                  /\ f.at - pp.stored[i].timestamp < 300
                  /\ f.at >= pp.stored[i].timestamp

\* a read returned what another process stored
C17_Witness ==
    \E p \in DOMAIN pp.procs, q \in DOMAIN pp.procs :
        /\ p # q
        /\ Returned(Proc(p), "get")
        /\ Proc(p).result # None
        /\ Proc(q).pc = "done" /\ Proc(q).op = "stored"
        /\ Proc(q).key = Proc(p).key /\ Proc(q).result = Proc(p).result
        /\ Len(pp.stored) = 1
        /\ Proc(p).at - pp.stored[1].timestamp = TickSeconds

\* an entry lost to the race: two writers of different keys finished and
\* the file holds only one entry
C17_WitnessLost ==
    /\ Len(pp.stored) = 2
    /\ pp.stored[1].key # pp.stored[2].key
    /\ cachefile.valid
    /\ Cardinality(cachefile.entries) = 1
    /\ \A p \in DOMAIN pp.procs : Proc(p).pc = "done"

\* a reader met the file between a writer's open and its dump
C17_WitnessPartial ==
    \E p \in DOMAIN pp.procs, q \in DOMAIN pp.procs :
        /\ Returned(Proc(p), "get") /\ Proc(p).saw = "malformed"
        /\ Proc(q).pc = "s_dump"


(***************************************************************************)
(* load_merged_config: dicts are objects on a heap, so that copying,       *)
(* sharing and mutation are what the code makes them.  A dict object is    *)
(* the keys it has and a value for each; a value is a text or a reference  *)
(* to a dict object.                                                       *)
(***************************************************************************)
TopKeys == {"jira", "github", "openai"}
InnerKeys == {"token", "base_url", "email", "api_key", "model"}
ConfigKeys == TopKeys \cup InnerKeys

NoValue == [kind |-> "none", text |-> <<>>, ref |-> 0]
TextValue(t) == [kind |-> "text", text |-> t, ref |-> 0]
DictValue(r) == [kind |-> "dict", text |-> <<>>, ref |-> r]

EmptyDict == [has |-> {}, at |-> [k \in ConfigKeys |-> NoValue]]

\* d[key] = value
Put(d, key, value) == [has |-> d.has \cup {key}, at |-> [d.at EXCEPT ![key] = value]]

\* a table of a file: the given keys, each with the file's mark as value
TableOf(keys, mark) ==
    [has |-> keys, at |-> [k \in ConfigKeys |-> IF k \in keys THEN TextValue(mark) ELSE NoValue]]

\* what a source holds under a top-level key: nothing, a text, or a table
AbsentShape == [kind |-> "absent", keys |-> {}]
TextShape == [kind |-> "text", keys |-> {}]
TableShape(keys) == [kind |-> "dict", keys |-> keys]

\* PWMConfig().as_dict(): defaults, keys with value None left out
DefaultsShape ==
    [jira |-> TableShape({}), github |-> TableShape({}), openai |-> TableShape({"base_url", "model"})]

\* a TOML file as _load_toml gives it; no file is the empty dict
FileShapes ==
    [jira : {AbsentShape, TextShape, TableShape({"token"}), TableShape({"email"}),
             TableShape({"token", "email"})},
     github : {AbsentShape},
     openai : {AbsentShape, TableShape({"api_key"}), TableShape({"model"})}]

\* the dict objects of one source put on the heap: its tables, then the
\* top-level dict
RECURSIVE Load(_, _, _, _, _)
Load(h, shape, mark, todo, top) ==
    IF todo = {} THEN [heap |-> Append(h, top), ref |-> Len(h) + 1]
    ELSE LET k == CHOOSE x \in todo : TRUE IN
         IF shape[k].kind = "absent" THEN Load(h, shape, mark, todo \ {k}, top)
         ELSE IF shape[k].kind = "text"
              THEN Load(h, shape, mark, todo \ {k}, Put(top, k, TextValue(mark)))
              ELSE Load(Append(h, TableOf(shape[k].keys, mark)), shape, mark, todo \ {k},
                        Put(top, k, DictValue(Len(h) + 1)))

\* os.getenv for each variable: None when unset
EnvNames == {"PWM_JIRA_TOKEN", "PWM_JIRA_BASE_URL", "PWM_JIRA_EMAIL", "GITHUB_TOKEN",
             "PWM_GITHUB_TOKEN", "OPENAI_API_KEY"}
EnvValue(name) ==
    IF name = "PWM_JIRA_TOKEN" THEN <<"e", "1">>
    ELSE IF name = "PWM_JIRA_BASE_URL" THEN <<"e", "2">>
    ELSE IF name = "PWM_JIRA_EMAIL" THEN <<"e", "3">>
    ELSE IF name = "GITHUB_TOKEN" THEN <<"e", "4">>
    ELSE IF name = "PWM_GITHUB_TOKEN" THEN <<"e", "5">>
    ELSE <<"e", "6">>
Environments == {[n \in EnvNames |-> IF n \in set THEN EnvValue(n) ELSE None] : set \in SUBSET EnvNames}

DictCopy_alias(h, a) == [heap |-> h, ref |-> a]

\* out = dict(a): a new object with a's keys and values
DictCopy(h, a) == [heap |-> Append(h, h[a]), ref |-> Len(h) + 1]

\* _deep_merge(a, b): copy a, then for each key of b merge table into table
\* and otherwise take b's value
RECURSIVE MergeItems(_, _, _, _)
RECURSIVE DeepMerge(_, _, _)
MergeItems(h, out, b, todo) ==
    IF todo = {} THEN [heap |-> h, ref |-> out]
    ELSE LET k == CHOOSE x \in todo : TRUE
             v == h[b].at[k]
         IN IF v.kind = "dict" /\ k \in h[out].has /\ h[out].at[k].kind = "dict"
            THEN LET m == DeepMerge(h, h[out].at[k].ref, v.ref) IN
                   MergeItems([m.heap EXCEPT ![out] = Put(m.heap[out], k, DictValue(m.ref))],
                              out, b, todo \ {k})
            ELSE MergeItems([h EXCEPT ![out] = Put(h[out], k, v)], out, b, todo \ {k})

DeepMerge(h, a, b) ==
    LET copy == DictCopy(h, a) IN MergeItems(copy.heap, copy.ref, b, copy.heap[b].has)

\* _set(d, "table.key", value): nothing for None, else d.setdefault(table, {})[key] = value
SetDotted(h, d, table, key, value) ==
    IF value = None THEN h
    ELSE IF table \in h[d].has
         THEN [h EXCEPT ![h[d].at[table].ref] = Put(@, key, TextValue(value))]
         ELSE Append([h EXCEPT ![d] = Put(@, table, DictValue(Len(h) + 1))],
                     Put(EmptyDict, key, TextValue(value)))

\* a or b, on os.getenv results
EnvOr(a, b) == IF Truthy(a) THEN a ELSE b

\* lines 50-54: the overrides taken from the environment
EnvOverrides(h, env) ==
    LET h0 == Append(h, EmptyDict)
        d == Len(h0)
        h1 == SetDotted(h0, d, "jira", "token", env["PWM_JIRA_TOKEN"])
        h2 == SetDotted(h1, d, "jira", "base_url", env["PWM_JIRA_BASE_URL"])
        h3 == SetDotted(h2, d, "jira", "email", env["PWM_JIRA_EMAIL"])
        h4 == SetDotted(h3, d, "github", "token",
                        EnvOr(env["GITHUB_TOKEN"], env["PWM_GITHUB_TOKEN"]))
    IN [heap |-> h4, ref |-> d]

LdFrame0 ==
    [pc |-> "idle", heap |-> <<>>, snap |-> <<>>, env |-> [n \in EnvNames |-> None],
     base |-> 0, user_cfg |-> 0, project_cfg |-> 0, env_overrides |-> 0, merged |-> 0]

LdInit ==
    /\ ld = LdFrame0
    /\ repo = IdleRepo /\ host = IdleHost /\ calls = <<>>
    /\ LatestIdle
    /\ ws = IdleWs /\ pr = IdlePr /\ we = IdleWe /\ sl = IdleSl /\ db = IdleDb
    /\ cw = IdleCw /\ bd = IdleBd /\ cachefile = NoFile /\ clock = 0
    /\ pp = IdlePp /\ ds = IdleDs

LdOthers == <<cw, bd, cachefile, clock, pp, ds>>

\* lines 33-44: the defaults and the two files
LdBegin ==
    /\ ld.pc = "idle"
    /\ \E user \in FileShapes, project \in FileShapes, env \in Environments :
         LET b == Load(<<>>, DefaultsShape, <<"d">>, TopKeys, EmptyDict)
             u == Load(b.heap, user, <<"u">>, TopKeys, EmptyDict)
             p == Load(u.heap, project, <<"p">>, TopKeys, EmptyDict)
         IN ld' = [ld EXCEPT !.pc = "loaded", !.heap = p.heap, !.snap = p.heap, !.env = env,
                             !.base = b.ref, !.user_cfg = u.ref, !.project_cfg = p.ref]
    /\ UNCHANGED calls
    /\ UNCHANGED earlier /\ UNCHANGED latest
    /\ UNCHANGED LdOthers

\* merged = _deep_merge(base, user_cfg)
LdMergeUser ==
    /\ ld.pc = "loaded"
    /\ LET m == DeepMerge(ld.heap, ld.base, ld.user_cfg) IN
         ld' = [ld EXCEPT !.pc = "user_merged", !.snap = ld.heap, !.heap = m.heap, !.merged = m.ref]
    /\ UNCHANGED calls
    /\ UNCHANGED earlier /\ UNCHANGED latest
    /\ UNCHANGED LdOthers

\* merged = _deep_merge(merged, project_cfg)
LdMergeProject ==
    /\ ld.pc = "user_merged"
    /\ LET m == DeepMerge(ld.heap, ld.merged, ld.project_cfg) IN
         ld' = [ld EXCEPT !.pc = "project_merged", !.snap = ld.heap, !.heap = m.heap,
                          !.merged = m.ref]
    /\ UNCHANGED calls
    /\ UNCHANGED earlier /\ UNCHANGED latest
    /\ UNCHANGED LdOthers

\* env_overrides, filled by _set from os.getenv
LdEnv ==
    /\ ld.pc = "project_merged"
    /\ LET e == EnvOverrides(ld.heap, ld.env) IN
         ld' = [ld EXCEPT !.pc = "env_read", !.snap = e.heap, !.heap = e.heap,
                          !.env_overrides = e.ref]
    /\ UNCHANGED calls
    /\ UNCHANGED earlier /\ UNCHANGED latest
    /\ UNCHANGED LdOthers

\* merged = _deep_merge(merged, env_overrides); return merged
LdMergeEnv ==
    /\ ld.pc = "env_read"
    /\ LET m == DeepMerge(ld.heap, ld.merged, ld.env_overrides) IN
         ld' = [ld EXCEPT !.pc = "done", !.snap = ld.heap, !.heap = m.heap, !.merged = m.ref]
    /\ UNCHANGED calls
    /\ UNCHANGED earlier /\ UNCHANGED latest
    /\ UNCHANGED LdOthers

LdNext == LdBegin \/ LdMergeUser \/ LdMergeProject \/ LdEnv \/ LdMergeEnv

SpecLoadConfig == LdInit /\ [][LdNext]_vars

\* the four sources in increasing precedence, and what they hold
Sources == <<ld.base, ld.user_cfg, ld.project_cfg, ld.env_overrides>>
Holds1(i, k) == k \in ld.heap[Sources[i]].has
Value1(i, k) == ld.heap[Sources[i]].at[k]
HoldsTable(i, k) == Holds1(i, k) /\ Value1(i, k).kind = "dict"
Holds2(i, k, j) == HoldsTable(i, k) /\ j \in ld.heap[Value1(i, k).ref].has
Value2(i, k, j) == ld.heap[Value1(i, k).ref].at[j]
Latest(set) == CHOOSE i \in set : \A o \in set : o <= i
\* config[k][j], None when missing
MergedAt(k, j) ==
    LET top == ld.heap[ld.merged] IN
      IF k \in top.has /\ top.at[k].kind = "dict" /\ j \in ld.heap[top.at[k].ref].has
      THEN ld.heap[top.at[k].ref].at[j].text ELSE None

\* C18: the result holds, for every key, what the latest source holding it
\* holds; where that is a table, each key of the table has the value of the
\* latest source, among those not overridden by a later non-table, whose
\* table holds it, so keys set only by earlier sources survive; a key no
\* source holds is missing.  No merge changes a dict that existed before it.
C18_DeepMergePrecedence ==
    /\ ld.pc \in {"user_merged", "project_merged", "done"} =>
          \A a \in 1..Len(ld.snap) : ld.heap[a] = ld.snap[a]
    /\ ld.pc = "done" =>
          \A k \in TopKeys :
            LET holders == {i \in 1..4 : Holds1(i, k)}
                result == ld.heap[ld.merged]
            IN  /\ holders = {} => k \notin result.has
                /\ holders # {} =>
                     /\ k \in result.has
                     /\ Value1(Latest(holders), k).kind = "text" =>
                           result.at[k] = Value1(Latest(holders), k)
                     /\ Value1(Latest(holders), k).kind = "dict" =>
                        /\ result.at[k].kind = "dict"
                        /\ \A j \in InnerKeys :
                             LET texts == {i \in holders : Value1(i, k).kind = "text"}
                                 from == IF texts = {} THEN 0 ELSE Latest(texts)
                                 tables == {i \in holders : i > from /\ Holds2(i, k, j)}
                                 table == ld.heap[result.at[k].ref]
                             IN  /\ tables = {} => j \notin table.has
                                 /\ tables # {} =>
                                      j \in table.has /\ table.at[j] = Value2(Latest(tables), k, j)

\* the user file sets jira.email only, the project file jira.token only and
\* the environment jira.token: all survive in one table, the token from
\* the environment
C18_Witness ==
    /\ ld.pc = "done"
    /\ Holds2(2, "jira", "email") /\ ~Holds2(2, "jira", "token")
    /\ Holds2(3, "jira", "token") /\ ~Holds2(3, "jira", "email")
    /\ Holds2(4, "jira", "token")
    /\ MergedAt("jira", "email") = <<"u">>
    /\ MergedAt("jira", "token") = EnvValue("PWM_JIRA_TOKEN")
    /\ MergedAt("openai", "model") = <<"d">>

\* C19: for the tracker token, base URL and account, the code-host token
\* and the completion-service API key, a set environment variable gives the
\* value of the merged configuration.
C19_EnvironmentWins ==
    ld.pc = "done" =>
        /\ ld.env["PWM_JIRA_TOKEN"] # None => MergedAt("jira", "token") = ld.env["PWM_JIRA_TOKEN"]
        /\ ld.env["PWM_JIRA_BASE_URL"] # None =>
              MergedAt("jira", "base_url") = ld.env["PWM_JIRA_BASE_URL"]
        /\ ld.env["PWM_JIRA_EMAIL"] # None => MergedAt("jira", "email") = ld.env["PWM_JIRA_EMAIL"]
        /\ EnvOr(ld.env["GITHUB_TOKEN"], ld.env["PWM_GITHUB_TOKEN"]) # None =>
              MergedAt("github", "token") = EnvOr(ld.env["GITHUB_TOKEN"], ld.env["PWM_GITHUB_TOKEN"])
        /\ ld.env["OPENAI_API_KEY"] # None => MergedAt("openai", "api_key") = ld.env["OPENAI_API_KEY"]

(***************************************************************************)
(* The completion service: OpenAIClient.from_config and complete, the      *)
(* summarize_* functions, and the daily_summary command that consumes      *)
(* them.  A call's outcome is the value it returns or Raised.              *)
(***************************************************************************)
Raised == <<"<raised>">>
Client == <<"<OpenAIClient>">>

\* cfg["openai"]["api_key"]: absent, empty or set
ApiKeys == {None, <<>>, <<"s", "k">>}

\* openai_client.py 27-38
from_config(api_key) == IF ~Truthy(api_key) THEN None ELSE Client

RECURSIVE LStripSpace(_)
LStripSpace(s) == IF s # <<>> /\ Head(s) = " " THEN LStripSpace(Tail(s)) ELSE s

RECURSIVE RStripSpace(_)
RStripSpace(s) ==
    IF s # <<>> /\ s[Len(s)] = " " THEN RStripSpace(SubSeq(s, 1, Len(s) - 1)) ELSE s

\* str.strip()
str_strip(s) == RStripSpace(LStripSpace(s))

\* What c.post can do: raise (status 0 stands for no response), answer with
\* a status other than 200, or answer 200 with a body of one of these shapes.
FailureCodes == {401, 500}
Bodies == {"not_json", "no_choices", "empty_choices", "choice_not_a_dict",
           "no_message", "no_content", "null_content", "text"}
Contents == {<<>>, <<" ">>, <<" ", "o", "k", " ">>, <<"o", "k">>}
Response(status, body, content) == [status |-> status, body |-> body, content |-> content]
Responses ==
    {Response(0, "none", <<>>)}
    \cup {Response(code, "none", <<>>) : code \in FailureCodes}
    \cup {Response(200, body, <<>>) : body \in Bodies \ {"text"}}
    \cup {Response(200, "text", content) : content \in Contents}

\* message.get("content", "") for the body shapes that reach line 110
ContentOf(r) ==
    CASE r.body = "null_content" -> None
      [] r.body = "text" -> r.content
      [] OTHER -> <<>>

\* lines 102-111, the body of the try: it raises, returns a value, or falls
\* through to line 115
Outcome(raised, returned, value) == [raised |-> raised, returned |-> returned, value |-> value]
TryBody(r) ==
    IF r.status = 0 THEN Outcome(TRUE, FALSE, None)
    ELSE IF r.status # 200 THEN Outcome(FALSE, FALSE, None)
    ELSE IF r.body \in {"not_json", "choice_not_a_dict"} THEN Outcome(TRUE, FALSE, None)
    ELSE IF r.body \in {"no_choices", "empty_choices"} THEN Outcome(FALSE, FALSE, None)
    ELSE Outcome(FALSE, TRUE,
                 IF Truthy(ContentOf(r)) THEN str_strip(ContentOf(r)) ELSE None)

\* OpenAIClient.complete: except Exception: pass, then return None
complete(r) ==
    LET t == TryBody(r) IN
    IF t.raised THEN None ELSE IF t.returned THEN t.value ELSE None

\* The five lists of a WorkSummaryData, each empty or holding one item
DataKeys == {"prs_opened", "prs_closed", "prs_merged", "jira_created", "jira_updated"}
PrKeys == {"prs_opened", "prs_closed", "prs_merged"}
JiraKeys == {"jira_created", "jira_updated"}
WorkData == [DataKeys -> {<<>>, <<"item">>}]

\* summarizer.py 116-119 and formatter.py 99-100, 188-189
has_work(data) == \E k \in DataKeys : data[k] # <<>>

\* summarizer.py 64-70, 87-93 and 112-179: no client or nothing to
\* summarize returns None before any request is made
Summarized(called, result) == [called |-> called, result |-> result]
summarize(openai, has_input, r) ==
    IF openai = None \/ ~has_input THEN Summarized(FALSE, None)
    ELSE Summarized(TRUE, complete(r))

\* formatter.py: the blocks of the report in order, the same in both renderers
Blocks(data, ai_summary) ==
    <<"header">>
    \o (IF Truthy(ai_summary) THEN <<"summary">> ELSE <<>>)
    \o (IF \E k \in PrKeys : data[k] # <<>> THEN <<"pull_requests">> ELSE <<>>)
    \o (IF \E k \in JiraKeys : data[k] # <<>> THEN <<"jira_issues">> ELSE <<>>)
    \o (IF ~has_work(data) THEN <<"no_activity">> ELSE <<>>)

\* def format_markdown(data, ai_summary=None) and def format_text(data,
\* ai_summary=None): a keyword that names no parameter is a TypeError
FormatterParameters == {"data", "ai_summary"}
format_report(data, ai_summary, keywords) ==
    IF ~(keywords \subseteq FormatterParameters) THEN Raised
    ELSE Blocks(data, ai_summary)

\* command.py 108 and 110: the keywords daily_summary passes
PassedKeywords == {"show_links", "jira_base_url"}

SummarizeFns == {"summarize_commits_for_pr", "summarize_work_end"}
Formats == {"text", "markdown"}

DsInit ==
    /\ \E api_key \in ApiKeys, r \in Responses :
          ds = [pc |-> "ready", api_key |-> api_key, response |-> r]
    /\ repo = IdleRepo /\ host = IdleHost /\ calls = <<>>
    /\ LatestIdle
    /\ ws = IdleWs /\ pr = IdlePr /\ we = IdleWe /\ sl = IdleSl /\ db = IdleDb
    /\ cw = IdleCw /\ bd = IdleBd /\ cachefile = NoFile /\ clock = 0
    /\ pp = IdlePp /\ ld = IdleLd

DsOthers == <<cw, bd, cachefile, clock, pp, ld>>

CompleteCall(fn) == [op |-> "openai.complete", fn |-> fn]

\* summarize_commits_for_pr and summarize_work_end, called with a list of
\* commits and the client from_config gave
SummarizeCommits ==
    /\ ds.pc = "ready"
    /\ \E fn \in SummarizeFns, commits \in {<<>>, <<"commit">>} :
          LET openai == from_config(ds.api_key)
              s == summarize(openai, commits # <<>>, ds.response)
          IN /\ ds' = [pc |-> "returned", fn |-> fn, api_key |-> ds.api_key,
                       response |-> ds.response, openai |-> openai,
                       has_input |-> commits # <<>>, called |-> s.called,
                       result |-> s.result]
             /\ calls' = IF s.called THEN Append(calls, CompleteCall(fn)) ELSE calls
    /\ UNCHANGED earlier /\ UNCHANGED latest /\ UNCHANGED DsOthers

\* daily_summary, lines 38-59: a RuntimeError of resolve_context ends the
\* command with 1; otherwise the clients are made
DsBegin ==
    /\ ds.pc = "ready"
    /\ \E resolved \in BOOLEAN, use_ai \in BOOLEAN, format \in Formats :
          ds' = [pc |-> IF resolved THEN "collect" ELSE "done",
                 fn |-> "daily_summary", api_key |-> ds.api_key,
                 response |-> ds.response, resolved |-> resolved,
                 use_ai |-> use_ai, format |-> format,
                 openai |-> IF use_ai THEN from_config(ds.api_key) ELSE None,
                 data |-> [k \in DataKeys |-> <<>>], called |-> FALSE,
                 ai_summary |-> None, output |-> None, shown |-> None,
                 rc |-> IF resolved THEN None ELSE <<"1">>]
    /\ UNCHANGED calls /\ UNCHANGED earlier /\ UNCHANGED latest /\ UNCHANGED DsOthers

\* lines 69-76: collect_work_data returns the lists
DsCollect ==
    /\ ds.pc = "collect"
    /\ \E data \in WorkData : ds' = [ds EXCEPT !.pc = "summarize", !.data = data]
    /\ UNCHANGED calls /\ UNCHANGED earlier /\ UNCHANGED latest /\ UNCHANGED DsOthers

\* lines 79-96
DsSummarize ==
    /\ ds.pc = "summarize"
    /\ IF ds.openai # None
       THEN LET s == summarize(ds.openai, has_work(ds.data), ds.response)
            IN /\ ds' = [ds EXCEPT !.pc = "format", !.called = s.called,
                                   !.ai_summary = s.result]
               /\ calls' = IF s.called THEN Append(calls, CompleteCall("summarize_daily_work"))
                           ELSE calls
       ELSE /\ ds' = [ds EXCEPT !.pc = "format"]
            /\ UNCHANGED calls
    /\ UNCHANGED earlier /\ UNCHANGED latest /\ UNCHANGED DsOthers

\* lines 99-129: render, show or save, return 0; an exception of the
\* renderer leaves the command by the exception
DsRender ==
    /\ ds.pc = "format"
    /\ LET output == format_report(ds.data, ds.ai_summary, PassedKeywords)
       IN ds' = IF output = Raised
                THEN [ds EXCEPT !.pc = "done", !.output = Raised, !.rc = Raised]
                ELSE [ds EXCEPT !.pc = "done", !.output = output, !.shown = output,
                                !.rc = <<"0">>]
    /\ UNCHANGED calls /\ UNCHANGED earlier /\ UNCHANGED latest /\ UNCHANGED DsOthers

DsNext == SummarizeCommits \/ DsBegin \/ DsCollect \/ DsSummarize \/ DsRender

SpecDailySummary == DsInit /\ [][DsNext]_vars

\* The request failed, or its answer holds no text: no response, a status
\* other than 200, no or an empty choice list, or empty content
FailedResponse(r) ==
    \/ r.status # 200
    \/ r.body \in {"no_choices", "empty_choices", "no_content", "null_content"}
    \/ r.body = "text" /\ r.content = <<>>

\* C20: complete and the summarize_* functions never raise; without
\* configuration, on a network error, a status other than 200, an empty
\* choice list or empty content they return None; summarize_daily_work
\* makes no completion call when there is no client or no activity; and
\* daily_summary then renders the report without an AI summary block and
\* returns 0.
C20_SummaryDegrades ==
    /\ ds.pc = "returned" =>
          /\ ds.result # Raised
          /\ (ds.openai = None \/ FailedResponse(ds.response)) => ds.result = None
    /\ ds.pc \in {"format", "done"} /\ ds.resolved =>
          /\ ds.ai_summary # Raised
          /\ (ds.openai = None \/ FailedResponse(ds.response)) => ds.ai_summary = None
          /\ (ds.openai = None \/ ~has_work(ds.data)) =>
                ~ds.called /\ Count(calls, "openai.complete") = 0
    /\ ds.pc = "done" /\ ds.resolved /\ ds.ai_summary = None =>
          /\ ds.rc = <<"0">>
          /\ ds.shown = Blocks(ds.data, None)
          /\ \A i \in 1..Len(ds.shown) : ds.shown[i] # "summary"

(***************************************************************************)
(* Remote-call failures at the client boundary.                            *)
(***************************************************************************)
\* C21: every remote call of the clients turns a timeout, a network
\* exception or a non-2xx response into None, an empty list or False, so
\* no run of work_start ends by an exception a failed remote call raised.
C21_RemoteFailuresCaught == ws.pc # "raised"

(***************************************************************************)
(* generate_work_summary.  A commit is its subject; a text is a sequence   *)
(* of characters and of the literal pieces of the f-string.                *)
(***************************************************************************)
MaxWorkCommits == 12    \* most commits handed to generate_work_summary

DecimalDigits == <<"0", "1", "2", "3", "4", "5", "6", "7", "8", "9">>

\* str(n) of a natural number
RECURSIVE str_int(_)
str_int(n) ==
    IF n < 10 THEN <<DecimalDigits[n + 1]>>
    ELSE str_int(n \div 10) \o <<DecimalDigits[(n % 10) + 1]>>

NoNewChanges == <<"No new changes since last update.">>

generate_work_summary_plural_from_two(commits) ==
    IF commits = <<>> THEN NoNewChanges
    ELSE IF Len(commits) = 1 THEN commits[1] \o <<".">>
    ELSE commits[1] \o <<" and ">> \o str_int(Len(commits) - 1) \o <<" other change">>
         \o (IF Len(commits) >= 2 THEN <<"s">> ELSE <<>>) \o <<".">>

\* end.py 37-60
generate_work_summary(commits) ==
    IF commits = <<>> THEN NoNewChanges
    ELSE IF Len(commits) = 1 THEN commits[1] \o <<".">>
    ELSE commits[1] \o <<" and ">> \o str_int(Len(commits) - 1) \o <<" other change">>
         \o (IF Len(commits) > 2 THEN <<"s">> ELSE <<>>) \o <<".">>

\* a first subject, then further commits that all carry one subject
FirstSubjects == {<<>>, <<"A">>, <<"A", "d", "d">>, <<"f", "i", "x", ".">>}
OtherSubjects == {<<"t">>, <<"A", "d", "d">>}
SummaryInputs ==
    {<<>>} \cup
    {[i \in 1..n |-> IF i = 1 THEN first ELSE other] :
        n \in 1..MaxWorkCommits, first \in FirstSubjects, other \in OtherSubjects}

GsInit ==
    /\ gs \in {[pc |-> "ready", commits |-> c, summary |-> None] : c \in SummaryInputs}
    /\ repo = IdleRepo /\ host = IdleHost /\ calls = <<>>
    /\ ws = IdleWs /\ pr = IdlePr /\ we = IdleWe /\ sl = IdleSl /\ db = IdleDb
    /\ LaterIdle
    /\ rv = IdleRv /\ pg = IdlePg /\ rt = IdleRt

\* summary = generate_work_summary(commits)
GenerateWorkSummaryCall ==
    /\ gs.pc = "ready"
    /\ gs' = [gs EXCEPT !.pc = "done", !.summary = generate_work_summary(gs.commits)]
    /\ UNCHANGED calls
    /\ UNCHANGED earlier /\ UNCHANGED later /\ UNCHANGED <<rv, pg, rt>>

GsNext == GenerateWorkSummaryCall

SpecWorkSummary == GsInit /\ [][GsNext]_vars

\* the decimal numeral of n, digit by digit from its value
IsNumeralOf(t, n) ==
    /\ Len(t) >= 1
    /\ \A i \in 1..Len(t) : \E d \in 0..9 : t[i] = DecimalDigits[d + 1]
    /\ (Len(t) > 1 => t[1] # "0")
    /\ n = IF Len(t) = 1 THEN CHOOSE d \in 0..9 : t[1] = DecimalDigits[d + 1]
           ELSE 10 * (CHOOSE d \in 0..9 : t[1] = DecimalDigits[d + 1])
                + (CHOOSE d \in 0..9 : t[2] = DecimalDigits[d + 1])

\* C22: generate_work_summary returns the fixed message for no commits,
\* '<subject>.' for one commit, and for N > 1 commits '<first subject> and
\* N-1 other change(s).', the count being N-1 and the noun singular
\* exactly when N = 2.
C22_WorkSummaryShape ==
    gs.pc = "done" =>
        LET n == Len(gs.commits)
            s == gs.summary
        IN /\ n = 0 => s = <<"No new changes since last update.">>
           /\ n = 1 => s = gs.commits[1] \o <<".">>
           /\ n > 1 =>
                \E k \in 1..2 :
                   LET a == Len(gs.commits[1])
                       rest == SubSeq(s, a + k + 3, Len(s))
                   IN /\ Len(s) >= a + k + 3
                      /\ SubSeq(s, 1, a) = gs.commits[1]
                      /\ s[a + 1] = " and "
                      /\ IsNumeralOf(SubSeq(s, a + 2, a + k + 1), n - 1)
                      /\ s[a + k + 2] = " other change"
                      /\ rest = IF n = 2 THEN <<".">> ELSE <<"s", ".">>

C22_Witness == gs.pc = "done" /\ Len(gs.commits) = 2 /\ gs.commits[1] # <<>>

C22_WitnessPlural == gs.pc = "done" /\ Len(gs.commits) = 11

\* C23: work_start returns 1 when both an issue key and create_new are
\* given and when neither is; and a run that returns 1 has created or
\* switched no branch and issued no tracker transition or comment.
C23_FailuresLeaveNoTrace ==
    [][ /\ (ws.pc = "idle" /\ ws'.pc # "idle") =>
              /\ (ws'.create_new /\ Truthy(ws'.given)) => (ws'.pc = "done" /\ ws'.rc = 1)
              /\ (~ws'.create_new /\ ~Truthy(ws'.given)) => (ws'.pc = "done" /\ ws'.rc = 1)
        /\ (ws'.pc = "done" /\ ws'.rc = 1) =>
              /\ repo' = repo
              /\ GitBranchOps(calls') = 0
              /\ Count(calls', "jira.get_transitions") = 0
              /\ Count(calls', "jira.post_transition") = 0
              /\ Count(calls', "jira.post_comment") = 0
      ]_vars

\* issue creation was cancelled or failed
C23_Witness ==
    ws.pc = "done" /\ ws.rc = 1 /\ ws.create_new /\ Count(calls, "create_new_issue") = 1

C23_WitnessBoth == ws.pc = "done" /\ ws.rc = 1 /\ ws.create_new /\ Truthy(ws.given)

\* C24: the base branch open_pr passes to create_pr is the detected
\* default branch, the value of get_default_branch with exactly its leading
\* '<remote>/' removed, also when the branch name itself contains '/'.
C24_BaseIsDefaultBranch ==
    \A i \in 1..Len(calls) :
        calls[i].op = "github.create_pr" =>
            calls[i].from = SubSeq(pr.base_ref, 2, Len(pr.base_ref))

(***************************************************************************)
(* display_pr_info, lines 46-58: the reviews of the pull request, grouped  *)
(* by reviewer in a dict, which keeps its keys in the order of insertion.  *)
(***************************************************************************)
MaxReviews == 3    \* most reviews the code host lists

Reviewers == {"reviewer1", "reviewer2"}
ReviewStates == {"APPROVED", "COMMENTED", "CHANGES_REQUESTED", "DISMISSED"}
Review(user, state) == [user |-> user, state |-> state]
ReviewLists ==
    UNION {[1..n -> {Review(u, s) : u \in Reviewers, s \in ReviewStates}] : n \in 0..MaxReviews}

\* user_reviews[user] = state on an insertion-ordered dict
SetItem(d, user, state) ==
    IF \E i \in 1..Len(d) : d[i].user = user
    THEN [i \in 1..Len(d) |-> IF d[i].user = user THEN Review(user, state) ELSE d[i]]
    ELSE Append(d, Review(user, state))

\* lines 50-55, over the first n reviews
RECURSIVE GroupReviews(_, _)
GroupReviews(reviews, n) ==
    IF n = 0 THEN <<>>
    ELSE LET d == GroupReviews(reviews, n - 1)
             review == reviews[n]
         IN IF review.state \in {"APPROVED", "COMMENTED"}
            THEN SetItem(d, review.user, review.state)
            ELSE d

\* the lines printed for the reviews get_pr_reviews returned
ReviewLines(reviews) ==
    IF reviews = <<>> THEN <<>> ELSE GroupReviews(reviews, Len(reviews))

RvInit ==
    /\ rv \in {[pc |-> "ready", reviews |-> r, lines |-> <<>>] : r \in ReviewLists}
    /\ repo = IdleRepo /\ host = IdleHost /\ calls = <<>>
    /\ ws = IdleWs /\ pr = IdlePr /\ we = IdleWe /\ sl = IdleSl /\ db = IdleDb
    /\ LaterIdle
    /\ gs = IdleGs /\ pg = IdlePg /\ rt = IdleRt

DisplayReviews ==
    /\ rv.pc = "ready"
    /\ rv' = [rv EXCEPT !.pc = "done", !.lines = ReviewLines(rv.reviews)]
    /\ UNCHANGED calls
    /\ UNCHANGED earlier /\ UNCHANGED later /\ UNCHANGED <<gs, pg, rt>>

RvNext == DisplayReviews

SpecReviews == RvInit /\ [][RvNext]_vars

\* the position of the latest review of a reviewer
LatestReviewOf(reviews, user) ==
    CHOOSE i \in 1..Len(reviews) :
        /\ reviews[i].user = user
        /\ \A j \in (i + 1)..Len(reviews) : reviews[j].user # user

\* C25: display_pr_info shows at most one line per reviewer, and the state
\* on the line is the state of that reviewer's latest review in the list
\* the code host returned.
C25_LatestStatePerReviewer ==
    rv.pc = "done" =>
        /\ \A i, j \in 1..Len(rv.lines) : rv.lines[i].user = rv.lines[j].user => i = j
        /\ \A i \in 1..Len(rv.lines) :
              /\ \E k \in 1..Len(rv.reviews) : rv.reviews[k].user = rv.lines[i].user
              /\ rv.lines[i].state =
                    rv.reviews[LatestReviewOf(rv.reviews, rv.lines[i].user)].state

(***************************************************************************)
(* The paged searches of the code host: search_prs_by_date (one query)     *)
(* and get_closed_prs (the merged query, then the unmerged one).  A page   *)
(* of items is kept as the query and page it came from and its length.     *)
(***************************************************************************)
PerPage == 100
PageLimit == 10

\* what one GET /search/issues can do: raise, answer another status than
\* 200, answer 200 with a body that is not JSON or has no "items", or
\* answer 200 with n items
PageSizes == {0, 1, PerPage - 1, PerPage}
PageResponses ==
    {[kind |-> k, n |-> 0] : k \in {"raise", "status", "bad_json", "no_items"}}
    \cup {[kind |-> "ok", n |-> n] : n \in PageSizes}

PastLimit_one_more(page) == page > PageLimit + 1

\* if page > 10: break
PastLimit(page) == page > PageLimit

\* one turn of the while loop for the page asked and the response to it:
\* the number of items kept and whether the loop goes on
LoopTurn(page, resp) ==
    IF resp.kind \in {"raise", "bad_json"} THEN [kept |-> 0, more |-> FALSE]
    ELSE IF resp.kind = "status" THEN [kept |-> 0, more |-> FALSE]
    ELSE IF resp.kind = "no_items" \/ resp.n = 0 THEN [kept |-> 0, more |-> FALSE]
    ELSE IF resp.n < PerPage THEN [kept |-> resp.n, more |-> FALSE]
    ELSE [kept |-> resp.n, more |-> ~PastLimit(page + 1)]

\* the queries a function sends, in order; none without org and repo
QueriesOf(fn, scoped) ==
    IF ~scoped THEN <<>>
    ELSE IF fn = "search_prs_by_date" THEN <<"created">>
    ELSE <<"merged", "unmerged">>

PgInit ==
    /\ pg \in {[pc |-> "call", fn |-> fn, scoped |-> scoped, queries |-> <<>>, page |-> 1,
                asked |-> <<>>, got |-> <<>>, results |-> <<>>, returned |-> None] :
                 fn \in {"search_prs_by_date", "get_closed_prs"}, scoped \in BOOLEAN}
    /\ repo = IdleRepo /\ host = IdleHost /\ calls = <<>>
    /\ ws = IdleWs /\ pr = IdlePr /\ we = IdleWe /\ sl = IdleSl /\ db = IdleDb
    /\ LaterIdle
    /\ gs = IdleGs /\ rv = IdleRv /\ rt = IdleRt

PgOthers == <<gs, rv, rt>>

\* client.py 314-344 and 400-435: the queries are built
PgBegin ==
    /\ pg.pc = "call"
    /\ LET queries == QueriesOf(pg.fn, pg.scoped)
       IN pg' = [pg EXCEPT !.queries = queries,
                           !.pc = IF queries = <<>> THEN "return" ELSE "loop"]
    /\ UNCHANGED calls
    /\ UNCHANGED earlier /\ UNCHANGED later /\ UNCHANGED PgOthers

\* client.py 349-372 and 449-486: one page is asked and handled; when the
\* loop ends the next query starts at page 1
PgRequest ==
    /\ pg.pc = "loop"
    /\ \E resp \in PageResponses :
          LET query == Head(pg.queries)
              turn == LoopTurn(pg.page, resp)
              results == IF turn.kept > 0
                         THEN Append(pg.results, [query |-> query, page |-> pg.page, n |-> turn.kept])
                         ELSE pg.results
              ask == [query |-> query, page |-> pg.page]
          IN /\ calls' = Append(calls, [op |-> "github.search", query |-> query, page |-> pg.page])
             /\ IF turn.more
                THEN pg' = [pg EXCEPT !.page = pg.page + 1, !.asked = Append(pg.asked, ask),
                                      !.got = Append(pg.got, resp), !.results = results]
                ELSE pg' = [pg EXCEPT !.page = 1, !.asked = Append(pg.asked, ask),
                                      !.got = Append(pg.got, resp), !.results = results,
                                      !.queries = Tail(pg.queries),
                                      !.pc = IF Tail(pg.queries) = <<>> THEN "return" ELSE "loop"]
    /\ UNCHANGED earlier /\ UNCHANGED later /\ UNCHANGED PgOthers

\* return results
PgReturn ==
    /\ pg.pc = "return"
    /\ pg' = [pg EXCEPT !.pc = "done", !.returned = pg.results]
    /\ UNCHANGED calls
    /\ UNCHANGED earlier /\ UNCHANGED later /\ UNCHANGED PgOthers

PgNext == PgBegin \/ PgRequest \/ PgReturn

\* the loop runs on its own: every request returns or raises within the
\* client's timeout
SpecPaged == PgInit /\ [][PgNext]_vars /\ WF_vars(PgNext)

\* the response ends the fetching of its query
StopsFetching(resp) == resp.kind # "ok" \/ resp.n < 100

\* the requests of one query, in the order made
AskedOf(query) == SelectSeq(pg.asked, LAMBDA a : a.query = query)

RECURSIVE KeptPages(_)
\* the non-empty pages among the first n requests, in order
KeptPages(n) ==
    IF n = 0 THEN <<>>
    ELSE IF pg.got[n].kind = "ok" /\ pg.got[n].n > 0
         THEN Append(KeptPages(n - 1),
                     [query |-> pg.asked[n].query, page |-> pg.asked[n].page, n |-> pg.got[n].n])
         ELSE KeptPages(n - 1)

C26_PagesInOrder ==
    /\ \A query \in {"created", "merged", "unmerged"} :
          /\ Len(AskedOf(query)) <= 10
          /\ \A i \in 1..Len(AskedOf(query)) : AskedOf(query)[i].page = i
    /\ \A i \in 1..Len(pg.asked) :
          \/ i = Len(pg.asked)
          \/ pg.asked[i + 1].query = pg.asked[i].query /\ ~StopsFetching(pg.got[i])
          \/ pg.asked[i + 1].query # pg.asked[i].query
             /\ (StopsFetching(pg.got[i]) \/ pg.asked[i].page = 10)
             /\ pg.asked[i].query = "merged" /\ pg.asked[i + 1].query = "unmerged"
    /\ pg.results = KeptPages(Len(pg.asked))
    /\ pg.pc \in {"return", "done"} /\ pg.asked # <<>> =>
          (StopsFetching(pg.got[Len(pg.got)]) \/ pg.asked[Len(pg.asked)].page = 10)
    /\ pg.pc = "done" => pg.returned = pg.results

\* C26: the paged searches terminate for every sequence of responses;
\* pages are asked in the order 1, 2, 3, ...; fetching a query stops at the
\* first response that is not 200, is empty, has fewer than 100 items or
\* raises; at most 10 pages are asked per query; and the items of the pages
\* fetched before the stop are returned.
C26_PagedSearchTerminates == []C26_PagesInOrder /\ <>(pg.pc = "done")

\* ten full pages of the merged query, then a failure of the unmerged one
C26_Witness ==
    /\ pg.pc = "done" /\ pg.fn = "get_closed_prs"
    /\ Len(pg.asked) = 11 /\ Len(pg.returned) = 10
    /\ pg.got[11].kind = "raise"

(***************************************************************************)
(* The branch name work_start computes and the issue key open_pr and       *)
(* work_end read back from it.                                             *)
(***************************************************************************)
MaxKeyPart == 2       \* most letters, and most digits, of an issue key
MaxSummaryLen == 3    \* most characters of an issue summary

TextsOver(chars, lo, hi) == UNION {[1..n -> chars] : n \in lo..hi}

\* issue keys of the form [A-Z]+-[0-9]+
IssueKeys ==
    {letters \o <<"-">> \o digits :
        letters \in TextsOver({"A", "Z"}, 1, MaxKeyPart),
        digits \in TextsOver({"0", "7"}, 1, MaxKeyPart)}

\* what get_issue_summary can give: None, or a text
IssueSummaries == {None} \cup TextsOver({"A", "-", "1", " "}, 0, MaxSummaryLen)

RtInit ==
    /\ rt \in {[pc |-> "start", issue_key |-> k, summary |-> s, branch |-> None, read |-> None] :
                 k \in IssueKeys, s \in IssueSummaries}
    /\ repo = IdleRepo /\ host = IdleHost /\ calls = <<>>
    /\ ws = IdleWs /\ pr = IdlePr /\ we = IdleWe /\ sl = IdleSl /\ db = IdleDb
    /\ LaterIdle
    /\ gs = IdleGs /\ rv = IdleRv /\ pg = IdlePg

\* start.py 52-54 with no branch pattern configured
RtBranchName ==
    /\ rt.pc = "start"
    /\ rt' = [rt EXCEPT !.pc = "named",
                        !.branch = BranchName(None, rt.issue_key, rt.summary)]
    /\ UNCHANGED calls
    /\ UNCHANGED earlier /\ UNCHANGED later /\ UNCHANGED <<gs, rv, pg>>

\* open.py 166 and end.py: the key read from the current branch
RtExtract ==
    /\ rt.pc = "named"
    /\ rt' = [rt EXCEPT !.pc = "done", !.read = extract_issue_key_from_branch(rt.branch)]
    /\ UNCHANGED calls
    /\ UNCHANGED earlier /\ UNCHANGED later /\ UNCHANGED <<gs, rv, pg>>

RtNext == RtBranchName \/ RtExtract

SpecRoundTrip == RtInit /\ [][RtNext]_vars

\* C27: for every issue key K of the form [A-Z]+-[0-9]+ and every summary,
\* the branch name work_start computes with the default pattern gives K
\* back under extract_issue_key_from_branch.
C27_KeyRoundTrip == rt.pc = "done" => rt.read = rt.issue_key

\* a summary that itself looks like a key, and a key with two digits
C27_Witness ==
    /\ rt.pc = "done"
    /\ rt.summary = <<"A", "-", "1">>
    /\ rt.issue_key = <<"Z", "A", "-", "0", "7">>
    /\ rt.branch = <<"Z", "A", "-", "0", "7", "-", "a", "-", "1">>

\* ------------------------------------------------------------------
\* The author constraint of the pull-request searches
\* ------------------------------------------------------------------

\* if author: query_parts.append(f"author:{author}")
\* (client.py 331-332 in search_prs_by_date, 428-429 in get_closed_prs)
AuthorPart(author) == IF Truthy(author) THEN <<"author:", author>> ELSE <<>>

\* C28: with include_own_prs_only enabled, every query collect_work_data
\* sends through search_prs_by_date and get_closed_prs carries the author
\* part naming the authenticated user, whatever get_current_user answered.
C28_OwnPrsCarryAuthor ==
    LET searches == CallsOf("search_prs_by_date") \o CallsOf("get_closed_prs")
    IN  cw.include_own_prs =>
          \A i \in 1..Len(searches) : AuthorPart(searches[i].author) = <<"author:", Me>>

\* ------------------------------------------------------------------
\* Closed pull requests whose details could not be fetched
\* ------------------------------------------------------------------

\* C29: every pull request the merged query matched is in prs_merged, every
\* pull request the unmerged query matched is in prs_closed, and none is
\* dropped, whether its details were fetched or the search item stands in.
C29_MatchedQueryDecidesList ==
    (cw.pc = "done" /\ Count(calls, "get_closed_prs") = 1) =>
        LET matched == CallsOf("get_closed_prs")[1].value IN
          /\ \A i \in 1..Len(matched) :
                /\ matched[i].query = "merged" => matched[i] \in Elems(cw.data.prs_merged)
                /\ matched[i].query = "unmerged" => matched[i] \in Elems(cw.data.prs_closed)
          /\ Len(cw.data.prs_merged) + Len(cw.data.prs_closed) = Len(matched)

(***************************************************************************)
(* fetch_jira_status called again and again by the prompt processes: each  *)
(* call reads the cache and, on a miss, asks the tracker and stores the    *)
(* status.  The log keeps the tracker calls and the statuses stored.       *)
(***************************************************************************)

\* fetch_jira_status(issue_key): cached = get_cached_status(issue_key)
FetchStart(p) ==
    /\ Proc(p).pc \in {"idle", "done"}
    /\ pp.ops < MaxOps
    /\ \E k \in CacheKeys :
         StartProc(p, [IdleProc EXCEPT !.pc = "g_read", !.op = "get", !.key = k,
                                       !.at = clock, !.before = cachefile])
    /\ UNCHANGED <<cachefile, clock, calls>>
    /\ UNCHANGED earlier /\ UNCHANGED latest
    /\ UNCHANGED CacheOthers

\* if cached: return cached
FetchReturnCached(p) ==
    /\ Returned(Proc(p), "get")
    /\ Truthy(Proc(p).result)
    /\ SetProc(p, [IdleProc EXCEPT !.pc = "done", !.op = "hit", !.key = Proc(p).key,
                                   !.result = Proc(p).result, !.at = Proc(p).at])
    /\ UNCHANGED <<cachefile, clock, calls>>
    /\ UNCHANGED earlier /\ UNCHANGED latest
    /\ UNCHANGED CacheOthers

FetchFromTracker_ignoring_cache(p) ==
    /\ Returned(Proc(p), "get")
    /\ \E configured \in BOOLEAN :
         IF ~configured
         THEN /\ SetProc(p, [IdleProc EXCEPT !.pc = "done", !.op = "miss", !.key = Proc(p).key])
              /\ UNCHANGED calls
         ELSE \E answer \in TrackerAnswers(Proc(p).key) :
                /\ calls' = Append(calls, [op |-> "jira.get_issue", proc |-> p,
                                           key |-> Proc(p).key, value |-> answer,
                                           mark |-> Len(pp.stored)])
                /\ IF answer = None
                   THEN SetProc(p, [IdleProc EXCEPT !.pc = "done", !.op = "miss",
                                                    !.key = Proc(p).key])
                   ELSE SetProc(p, [Proc(p) EXCEPT !.pc = "s_read", !.op = "set",
                                                   !.status = answer])
    /\ UNCHANGED <<cachefile, clock>>
    /\ UNCHANGED earlier /\ UNCHANGED latest
    /\ UNCHANGED CacheOthers

\* on a miss: JiraClient.from_config, None when the tracker is not
\* configured; else jira.get_issue, and with a status in the answer
\* set_cached_status(issue_key, status); an exception or an answer without
\* a status gives None.  mark counts the writes of the file so far.
FetchFromTracker(p) ==
    /\ Returned(Proc(p), "get")
    /\ ~Truthy(Proc(p).result)
    /\ \E configured \in BOOLEAN :
         IF ~configured
         THEN /\ SetProc(p, [IdleProc EXCEPT !.pc = "done", !.op = "miss", !.key = Proc(p).key])
              /\ UNCHANGED calls
         ELSE \E answer \in TrackerAnswers(Proc(p).key) :
                /\ calls' = Append(calls, [op |-> "jira.get_issue", proc |-> p,
                                           key |-> Proc(p).key, value |-> answer,
                                           mark |-> Len(pp.stored)])
                /\ IF answer = None
                   THEN SetProc(p, [IdleProc EXCEPT !.pc = "done", !.op = "miss",
                                                    !.key = Proc(p).key])
                   ELSE SetProc(p, [Proc(p) EXCEPT !.pc = "s_read", !.op = "set",
                                                   !.status = answer])
    /\ UNCHANGED <<cachefile, clock>>
    /\ UNCHANGED earlier /\ UNCHANGED latest
    /\ UNCHANGED CacheOthers

\* the tracker calls of process p, in order
ContactsOf(p) == SelectSeq(calls, LAMBDA e : e.op = "jira.get_issue" /\ e.proc = p)

\* set_cached_status(issue_key, status) has returned: return status
FetchReturnStatus(p) ==
    /\ Returned(Proc(p), "set")
    /\ SetProc(p, [IdleProc EXCEPT !.pc = "done", !.op = "stored", !.key = Proc(p).key,
                                   !.result = Proc(p).status, !.at = Proc(p).at])
    /\ calls' = Append(calls, [op |-> "set_cached_status", proc |-> p, key |-> Proc(p).key,
                               status |-> Proc(p).status, timestamp |-> Proc(p).at,
                               mark |-> ContactsOf(p)[Len(ContactsOf(p))].mark])
    /\ UNCHANGED <<cachefile, clock>>
    /\ UNCHANGED earlier /\ UNCHANGED latest
    /\ UNCHANGED CacheOthers

FetchNext ==
    \/ \E p \in DOMAIN pp.procs :
          \/ FetchStart(p) \/ FetchReturnCached(p) \/ FetchFromTracker(p)
          \/ FetchReturnStatus(p)
          \/ GetRead(p) \/ GetEval(p)
          \/ SetRead(p) \/ SetStamp(p) \/ SetOpen(p) \/ SetDump(p)
    \/ Tick

\* prompt processes, each running fetch_jira_status any number of times
SpecFetch == CacheInit(MaxProcs) /\ [][FetchNext]_vars

\* the fetches of key k by process p that stored a status
SuccessesOf(p, k) ==
    {calls[i] : i \in {j \in 1..Len(calls) :
                         /\ calls[j].op = "set_cached_status"
                         /\ calls[j].proc = p /\ calls[j].key = k}}

\* since the fetch e of process p began to store its status, only p has
\* written the file, and no other process is in the middle of writing it
Undisturbed(p, e) ==
    LET own == {j \in 1..Len(calls) :
                  /\ calls[j].op = "set_cached_status"
                  /\ calls[j].proc = p /\ calls[j].mark >= e.mark}
    IN  /\ Len(pp.stored) - e.mark = Cardinality(own)
        /\ \A q \in DOMAIN pp.procs : q # p => Proc(q).pc # "s_dump"

\* process p, its cache read done, goes on without the cached status
GoesToTracker(p) ==
    /\ Returned(Proc(p), "get")
    /\ pp'.procs[p] # Proc(p)
    /\ pp'.procs[p].op # "hit"

\* process p returns from a fetch that stored nothing
ReturnsUnstored(p) ==
    /\ Proc(p).pc # "done"
    /\ pp'.procs[p].pc = "done"
    /\ pp'.procs[p].op \in {"hit", "miss"}

\* C30 as stated: once a fetch of key k stored a status at time t, no
\* fetch of k before t + 300 goes to the tracker.
C30_TrackerOnlyOnMiss ==
    [][\A p \in DOMAIN pp.procs :
         GoesToTracker(p) =>
            ~\E e \in SuccessesOf(p, Proc(p).key) : Fresh(Proc(p).at, e.timestamp)]_vars

\* C30, amended: as long as no other prompt process writes the cache file
\* meanwhile, a fetch of key k less than 300 seconds after a fetch of k
\* stored a status at time t returns that status, without a tracker call
\* and without writing the file; a fetch that fails returns None and
\* writes nothing either.
C30_TrackerOnlyOnMissUndisturbed ==
    [][\A p \in DOMAIN pp.procs :
         /\ GoesToTracker(p) =>
               ~\E e \in SuccessesOf(p, Proc(p).key) :
                    Fresh(Proc(p).at, e.timestamp) /\ Undisturbed(p, e)
         /\ ReturnsUnstored(p) =>
               /\ cachefile' = cachefile
               /\ calls' = calls \/ calls'[Len(calls')].value = None
               /\ pp'.stored = pp.stored
               /\ pp'.procs[p].op = "miss" => pp'.procs[p].result = None
               /\ pp'.procs[p].op = "hit" =>
                     /\ calls' = calls
                     /\ Truthy(pp'.procs[p].result)
                     /\ \A e \in SuccessesOf(p, Proc(p).key) :
                           (Fresh(Proc(p).at, e.timestamp) /\ Undisturbed(p, e))
                               => pp'.procs[p].result = e.status]_vars

\* a process stored a status, time passed, and its next fetch of the key
\* returned the cached status
C30_Witness ==
    \E p \in DOMAIN pp.procs :
        /\ Proc(p).pc = "done" /\ Proc(p).op = "hit"
        /\ \E e \in SuccessesOf(p, Proc(p).key) :
              /\ e.timestamp < Proc(p).at
              /\ Fresh(Proc(p).at, e.timestamp)
              /\ Undisturbed(p, e)
              /\ Proc(p).result = e.status

\* a status stored, and a later fetch that failed
C30_WitnessFailed ==
    \E p \in DOMAIN pp.procs :
        /\ Proc(p).pc = "done" /\ Proc(p).op = "miss"
        /\ Len(pp.stored) > 0
        /\ Len(ContactsOf(p)) > 0
        /\ ContactsOf(p)[Len(ContactsOf(p))].value = None

====
